---------------------------- MODULE Spec2Model ----------------------------
(***************************************************************************)
(* Model of the pantry agent (despense-agent/despensa_agent.py).           *)
(*                                                                         *)
(* The ledger DESPENSA_DB is a Python dict: it is modelled as the sequence *)
(* of its items in insertion order, one record per key.  Optional         *)
(* arguments and JSON values that may be null are modelled as sequences of *)
(* length at most one: <<>> is None/null, <<v>> is the value v.  A JSON    *)
(* object is a function from its keys, so a missing key is a key that is   *)
(* not in its DOMAIN.  Formatted messages are sequences of string pieces,   *)
(* written without accents and emoji (ASCII only).                         *)
(***************************************************************************)
EXTENDS Integers, Sequences, FiniteSets, TLC

\* DESPENSA_DB: the ledger.  ultimo: the call in flight, its arguments, the ledger
\* it started from and the value it returned; [op |-> "idle"] between calls.
VARIABLES DESPENSA_DB, ultimo

\* The turn of run_agent.  mensajes: the messages of the graph state.  nodo: the
\* node of the graph the turn is at.  turno: the inputs of the turn, what it
\* has counted and what run_agent returned.
VARIABLES mensajes, nodo, turno

\* The server.  chat_histories: the history of each number that has one.
\* enviados: the calls of send_whatsapp_message, in order.  evento: the
\* messages of the webhook event and the index of the next one.
VARIABLES chat_histories, enviados, evento

\* hilos: the local state of each of two threads that run concurrently
VARIABLES hilos

varsAgente == <<mensajes, nodo, turno>>
varsServidor == <<chat_histories, enviados, evento>>
vars == <<DESPENSA_DB, ultimo, varsAgente, varsServidor, hilos>>

---------------------------------------------------------------------------
(* Bounds of the model *)

\* largest quantity an input carries
MaxCantidad == 3
\* largest number of items in one extracted intent
MaxProductos == 2

---------------------------------------------------------------------------
(* Optional values *)

None == <<>>
Some(v) == <<v>>
IsNone(o) == o = <<>>
Val(o) == o[1]

\* dict.get(key, default) on a JSON object whose values are optional values
DictGet(d, k, def) == IF k \in DOMAIN d THEN d[k] ELSE def

---------------------------------------------------------------------------
(* str.lower(), str.upper(), str.strip() on the strings the model uses *)

Lower(s) ==
    CASE s = "Leche"   -> "leche"
      [] s = " Leche " -> " leche "
      [] s = "MILK"    -> "milk"
      [] s = ".OGG"    -> ".ogg"
      [] s = ".XYZ"    -> ".xyz"
      [] OTHER         -> s

Upper(s) ==
    CASE s = "bajo"    -> "BAJO"
      [] s = " bajo "  -> " BAJO "
      [] s = "lleno"   -> "LLENO"
      [] OTHER         -> s

Strip(s) ==
    CASE s = " leche " -> "leche"
      [] s = " Leche " -> "Leche"
      [] s = " BAJO "  -> "BAJO"
      [] s = " bajo "  -> "bajo"
      [] OTHER         -> s

---------------------------------------------------------------------------
(* The ledger: a dict in insertion order *)

DbKeys(db) == {db[i].nombre : i \in DOMAIN db}

DbHas(db, k) == k \in DbKeys(db)

DbIndex(db, k) == CHOOSE i \in DOMAIN db : db[i].nombre = k

\* dict.get(k): None when the key is absent
DbGet(db, k) == IF DbHas(db, k) THEN Some(db[DbIndex(db, k)]) ELSE None

\* DbSet building a new dict with the one entry
DbSet_soloLaEntrada(db, k, stock, unidad, estado) ==
    << [nombre |-> k, stock |-> stock, unidad |-> unidad, estado |-> estado] >>

\* DbSet without the test for an existing key
DbSet_siempreAgrega(db, k, stock, unidad, estado) ==
    Append(db, [nombre |-> k, stock |-> stock, unidad |-> unidad, estado |-> estado])

\* dict[k] = v: an existing key keeps its position, a new key goes last
DbSet(db, k, stock, unidad, estado) ==
    LET e == [nombre |-> k, stock |-> stock, unidad |-> unidad, estado |-> estado]
    IN  IF DbHas(db, k)
          THEN [db EXCEPT ![DbIndex(db, k)] = e]
          ELSE Append(db, e)

DESPENSA_DB_inicial ==
    << [nombre |-> "leche",  stock |-> 0,  unidad |-> "litro",   estado |-> "BAJO"],
       [nombre |-> "huevos", stock |-> 12, unidad |-> "unidad",  estado |-> "ALTO"],
       [nombre |-> "pan",    stock |-> 2,  unidad |-> "unidad",  estado |-> "MEDIO"],
       [nombre |-> "azucar", stock |-> 2,  unidad |-> "kg",      estado |-> "ALTO"],
       [nombre |-> "aceite", stock |-> 1,  unidad |-> "litro",   estado |-> "MEDIO"],
       [nombre |-> "arroz",  stock |-> 0,  unidad |-> "kg",      estado |-> "BAJO"],
       [nombre |-> "fideos", stock |-> 5,  unidad |-> "paquete", estado |-> "ALTO"] >>

\* Clave without the strip
Clave_sinStrip(item_name) == Lower(item_name)

\* item_name.lower().strip(): the key of an item
Clave(item_name) == Strip(Lower(item_name))

---------------------------------------------------------------------------
(* consultar_despensa *)

MensajeNoRegistrado(item_name) ==
    <<"El item '", item_name, "' no esta registrado en la despensa.">>

MensajeProducto(item_name, producto) ==
    <<"El producto '", item_name, "' tiene ", ToString(producto.stock), " ",
      producto.unidad, " y esta en estado ", producto.estado>>

\* consultar_despensa answering with the defaults of the found branch for a
\* name that has no entry
consultar_despensa_porDefecto(db, item_name) ==
    LET producto == DbGet(db, Clave(item_name))
        datos == IF IsNone(producto)
                   THEN [stock |-> 0, unidad |-> "unidad", estado |-> "MEDIO"]
                   ELSE Val(producto)
    IN  [accion |-> "QUERY", producto |-> item_name, encontrado |-> TRUE,
         stock |-> datos.stock, unidad |-> datos.unidad, estado |-> datos.estado,
         mensaje |-> MensajeProducto(item_name, datos)]

consultar_despensa(db, item_name) ==
    LET item_name_lower == Clave(item_name)
        producto == DbGet(db, item_name_lower)
    IN  IF IsNone(producto)
          THEN [accion |-> "QUERY", producto |-> item_name, encontrado |-> FALSE,
                mensaje |-> MensajeNoRegistrado(item_name)]
          ELSE [accion |-> "QUERY", producto |-> item_name, encontrado |-> TRUE,
                stock |-> Val(producto).stock,
                unidad |-> Val(producto).unidad,
                estado |-> Val(producto).estado,
                mensaje |-> MensajeProducto(item_name, Val(producto))]

---------------------------------------------------------------------------
(* actualizar_despensa *)

\* estados_validos with one more status
estados_validos_conLleno == {"BAJO", "MEDIO", "ALTO", "LLENO"}

estados_validos == {"BAJO", "MEDIO", "ALTO"}

\* UnidadODefecto ignoring its argument
UnidadODefecto_siempre(unidad) == "unidad"

\* unidad = unidad or "unidad": None and the empty string both give the default
UnidadODefecto(unidad) ==
    IF IsNone(unidad) \/ unidad = Some("") THEN "unidad" ELSE Val(unidad)

\* EstadoCalculado with < 2 for <= 2
EstadoCalculado_menor2(cantidad, estado) ==
    IF IsNone(estado) /\ ~IsNone(cantidad)
      THEN IF Val(cantidad) = 0 THEN "BAJO"
           ELSE IF Val(cantidad) < 2 THEN "MEDIO"
           ELSE "ALTO"
      ELSE IF IsNone(estado) THEN "MEDIO"
      ELSE Val(estado)

\* EstadoCalculado computing the status whenever a quantity is passed
EstadoCalculado_cantidadGana(cantidad, estado) ==
    IF ~IsNone(cantidad)
      THEN IF Val(cantidad) = 0 THEN "BAJO"
           ELSE IF Val(cantidad) <= 2 THEN "MEDIO"
           ELSE "ALTO"
      ELSE IF IsNone(estado) THEN "MEDIO"
      ELSE Val(estado)

\* the status computed from the quantity when no status is passed
EstadoCalculado(cantidad, estado) ==
    IF IsNone(estado) /\ ~IsNone(cantidad)
      THEN IF Val(cantidad) = 0 THEN "BAJO"
           ELSE IF Val(cantidad) <= 2 THEN "MEDIO"
           ELSE "ALTO"
      ELSE IF IsNone(estado) THEN "MEDIO"
      ELSE Val(estado)

\* EstadoUpper without the strip
EstadoUpper_sinStrip(estado) == Upper(estado)

\* estado.upper().strip()
EstadoUpper(estado) == Strip(Upper(estado))

\* StockNuevo that forgets the stock already stored
StockNuevo_cero(cantidad, producto_existente) ==
    IF ~IsNone(cantidad) THEN Val(cantidad) ELSE 0

\* StockNuevo adding the quantity to the stock already stored
StockNuevo_acumula(cantidad, producto_existente) ==
    (IF ~IsNone(producto_existente) THEN Val(producto_existente).stock ELSE 0)
    + (IF ~IsNone(cantidad) THEN Val(cantidad) ELSE 0)

\* the stock written: the quantity passed, else the stock already stored, else 0
StockNuevo(cantidad, producto_existente) ==
    IF ~IsNone(cantidad) THEN Val(cantidad)
    ELSE IF ~IsNone(producto_existente) THEN Val(producto_existente).stock
    ELSE 0

\* the dict written back and the JSON the tool returns
actualizar_despensa(db, item_name, cantidad, unidad0, estado0) ==
    LET item_name_lower == Clave(item_name)
        unidad == UnidadODefecto(unidad0)
        estado == EstadoCalculado(cantidad, estado0)
        estado_upper == EstadoUpper(estado)
        producto_existente == DbGet(db, item_name_lower)
        es_nuevo == IsNone(producto_existente)
        stock == StockNuevo(cantidad, producto_existente)
    IN  IF estado_upper \notin estados_validos
          THEN [db  |-> db,
                res |-> [accion |-> "UPDATE", producto |-> item_name, exito |-> FALSE,
                         error |-> <<"Estado '", estado,
                                     "' no valido. Use: BAJO, MEDIO o ALTO">>]]
          ELSE [db  |-> DbSet(db, item_name_lower, stock, unidad, estado_upper),
                res |-> [accion |-> IF es_nuevo THEN "CREATE" ELSE "UPDATE",
                         producto |-> item_name, exito |-> TRUE,
                         stock |-> stock, unidad |-> unidad, estado |-> estado_upper,
                         mensaje |-> <<IF es_nuevo THEN "Creado" ELSE "Actualizado",
                                       ": '", item_name, "' ahora tiene ",
                                       ToString(stock), " ", unidad,
                                       " (estado: ", estado_upper, ")">>]]

---------------------------------------------------------------------------
(* procesar_extracto_productos *)

RECURSIVE ActualizarProductos(_, _)
\* the loop of the UPDATE/CREATE branch: an item without a name makes the tool
\* call raise, which ends the loop and keeps the writes already made
ActualizarProductos(db, productos) ==
    IF productos = <<>>
      THEN [db |-> db, resultados |-> <<>>, error |-> FALSE]
      ELSE LET producto == Head(productos)
               nombre == DictGet(producto, "nombre", None)
               cantidad == DictGet(producto, "cantidad", None)
               unidad == DictGet(producto, "unidad", Some("unidad"))
           IN  IF IsNone(nombre)
                 THEN [db |-> db, resultados |-> <<>>, error |-> TRUE]
                 ELSE LET r == actualizar_despensa(db, Val(nombre), cantidad, unidad, None)
                          resto == ActualizarProductos(r.db, Tail(productos))
                      IN  [db |-> resto.db,
                           resultados |-> <<r.res>> \o resto.resultados,
                           error |-> resto.error]

RECURSIVE ConsultarProductos(_, _)
\* the loop of the QUERY branch with items
ConsultarProductos(db, productos) ==
    IF productos = <<>>
      THEN [resultados |-> <<>>, error |-> FALSE]
      ELSE LET nombre == DictGet(Head(productos), "nombre", None)
           IN  IF IsNone(nombre)
                 THEN [resultados |-> <<>>, error |-> TRUE]
                 ELSE LET resto == ConsultarProductos(db, Tail(productos))
                      IN  [resultados |-> <<consultar_despensa(db, Val(nombre))>>
                                            \o resto.resultados,
                           error |-> resto.error]

\* TodosProductos listing the dict from its last entry to its first
TodosProductos_alReves(db) ==
    [i \in DOMAIN db |->
        [nombre |-> db[Len(db) + 1 - i].nombre, stock |-> db[Len(db) + 1 - i].stock,
         unidad |-> db[Len(db) + 1 - i].unidad, estado |-> db[Len(db) + 1 - i].estado]]

\* QUERY without items: every entry, in the order of the dict
TodosProductos(db) ==
    [i \in DOMAIN db |-> [nombre |-> db[i].nombre, stock |-> db[i].stock,
                          unidad |-> db[i].unidad, estado |-> db[i].estado]]

\* EsBajoStock reading the status only
EsBajoStock_soloEstado(datos) == datos.estado = "BAJO"

\* the test of the SHOPPING_LIST branch
EsBajoStock(datos) == datos.estado = "BAJO" \/ datos.stock = 0

\* SHOPPING_LIST: the entries that pass the test, in the order of the dict
ProductosBajoStock(db) ==
    LET F[i \in 0..Len(db)] ==
            IF i = 0 THEN <<>>
            ELSE IF EsBajoStock(db[i])
                   THEN Append(F[i-1], [nombre |-> db[i].nombre,
                                        stock_actual |-> db[i].stock,
                                        unidad |-> db[i].unidad,
                                        estado |-> db[i].estado])
                   ELSE F[i-1]
    IN  F[Len(db)]

ResultadoError == [accion |-> "ERROR", error |-> <<"excepcion">>,
                   mensaje |-> <<"Error procesando extracto: ", "excepcion">>]

ResultadoFinal(accion, resultados) ==
    [accion_original |-> accion, resultados |-> resultados,
     total_operaciones |-> Len(resultados)]

\* procesar_extracto_productos whose QUERY branch with items writes them
procesar_extracto_productos_consultaEscribe(db, extracto) ==
    LET accion == DictGet(extracto, "accion", None)
        productos == DictGet(extracto, "productos", Some(<<>>))
    IN  IF IsNone(productos)
          THEN [db |-> db, res |-> ResultadoError]
        ELSE IF accion \in {Some("UPDATE"), Some("CREATE")}
          THEN LET r == ActualizarProductos(db, Val(productos))
               IN  [db  |-> r.db,
                    res |-> IF r.error THEN ResultadoError
                            ELSE ResultadoFinal(accion, r.resultados)]
        ELSE IF accion = Some("QUERY")
          THEN IF Val(productos) # <<>>
                 THEN LET r == ConsultarProductos(db, Val(productos))
                      IN  [db  |-> ActualizarProductos(db, Val(productos)).db,
                           res |-> IF r.error THEN ResultadoError
                                   ELSE ResultadoFinal(accion, r.resultados)]
                 ELSE [db  |-> db,
                       res |-> ResultadoFinal(accion,
                                 << [accion |-> "QUERY", tipo |-> "todos",
                                     productos |-> TodosProductos(db),
                                     mensaje |-> <<"Tienes ", ToString(Len(db)),
                                                   " productos en tu despensa">>] >>)]
        ELSE IF accion = Some("SHOPPING_LIST")
          THEN [db  |-> db,
                res |-> ResultadoFinal(accion,
                          << [accion |-> "SHOPPING_LIST",
                              productos |-> ProductosBajoStock(db),
                              mensaje |-> <<"Te faltan ",
                                            ToString(Len(ProductosBajoStock(db))),
                                            " productos. Lista de compras generada.">>] >>)]
        ELSE [db |-> db, res |-> ResultadoFinal(accion, <<>>)]

procesar_extracto_productos(db, extracto) ==
    LET accion == DictGet(extracto, "accion", None)
        productos == DictGet(extracto, "productos", Some(<<>>))
    IN  IF IsNone(productos)
          THEN [db |-> db, res |-> ResultadoError]
        ELSE IF accion \in {Some("UPDATE"), Some("CREATE")}
          THEN LET r == ActualizarProductos(db, Val(productos))
               IN  [db  |-> r.db,
                    res |-> IF r.error THEN ResultadoError
                            ELSE ResultadoFinal(accion, r.resultados)]
        ELSE IF accion = Some("QUERY")
          THEN IF Val(productos) # <<>>
                 THEN LET r == ConsultarProductos(db, Val(productos))
                      IN  [db  |-> db,
                           res |-> IF r.error THEN ResultadoError
                                   ELSE ResultadoFinal(accion, r.resultados)]
                 ELSE [db  |-> db,
                       res |-> ResultadoFinal(accion,
                                 << [accion |-> "QUERY", tipo |-> "todos",
                                     productos |-> TodosProductos(db),
                                     mensaje |-> <<"Tienes ", ToString(Len(db)),
                                                   " productos en tu despensa">>] >>)]
        ELSE IF accion = Some("SHOPPING_LIST")
          THEN [db  |-> db,
                res |-> ResultadoFinal(accion,
                          << [accion |-> "SHOPPING_LIST",
                              productos |-> ProductosBajoStock(db),
                              mensaje |-> <<"Te faltan ",
                                            ToString(Len(ProductosBajoStock(db))),
                                            " productos. Lista de compras generada.">>] >>)]
        ELSE [db |-> db, res |-> ResultadoFinal(accion, <<>>)]

---------------------------------------------------------------------------
(* extraer_productos_desde_texto *)

\* The text the language model returns is a sequence of pieces: a fence that
\* opens a json code block, a bare fence (three backquotes), prose, or the
\* text of one JSON value.
FenceJson == [t |-> "fence_json"]
Fence == [t |-> "fence"]
Texto == [t |-> "texto"]
Json(v) == [t |-> "json", v |-> v]

RECURSIVE Quitar(_, _)
\* str.replace(piece, ""): every occurrence of the piece is removed
Quitar(contenido, pieza) ==
    IF contenido = <<>> THEN <<>>
    ELSE IF Head(contenido) = pieza THEN Quitar(Tail(contenido), pieza)
    ELSE <<Head(contenido)>> \o Quitar(Tail(contenido), pieza)

\* removing the bare fence from a json fence leaves the word json, which is prose
QuitarFence(contenido) ==
    LET sin == Quitar(contenido, Fence)
    IN  [i \in DOMAIN sin |-> IF sin[i] = FenceJson THEN Texto ELSE sin[i]]

\* the cleaning of markdown code blocks
Limpiar(contenido) ==
    IF contenido # <<>> /\ Head(contenido) = FenceJson
      THEN Quitar(Quitar(contenido, FenceJson), Fence)
    ELSE IF contenido # <<>> /\ Head(contenido) = Fence
      THEN QuitarFence(contenido)
    ELSE contenido

\* json.loads succeeds when the text is exactly one JSON value
EsJson(contenido) == Len(contenido) = 1 /\ contenido[1].t = "json"

ExtractoPorDefecto(intencion) ==
    [accion |-> Some("QUERY"), productos |-> Some(<<>>), intencion |-> Some(intencion)]

\* what the try block returns for the JSON value parsed: the value itself,
\* unless reading its accion and productos for the log line raises
ResultadoExtraccion(resultado) ==
    IF resultado.clase # "dict"
      THEN ExtractoPorDefecto("error al procesar")
    ELSE IF IsNone(DictGet(resultado.d, "productos", Some(<<>>)))
      THEN ExtractoPorDefecto("error al procesar")
    ELSE resultado.d

\* respuesta: what llm.invoke does, raise or return a content
extraer_productos_desde_texto(respuesta) ==
    IF respuesta.raises
      THEN ExtractoPorDefecto("error al procesar")
      ELSE LET contenido == Limpiar(respuesta.content)
           IN  IF ~EsJson(contenido)
                 THEN ExtractoPorDefecto("no se pudo extraer informacion estructurada")
                 ELSE ResultadoExtraccion(contenido[1].v)

---------------------------------------------------------------------------
(* transcribir_audio and procesar_imagen *)

\* ceilings of the file size, in MB
MaxMBAudio == 25
MaxMBImagen == 20

\* a tool either raises an exception or returns a content; externas counts the
\* calls made to the external speech or vision capability
Raise(tipo, motivo, externas) ==
    [raises |-> Some([tipo |-> tipo, motivo |-> motivo]), content |-> None,
     externas |-> externas]
Return(content, externas) ==
    [raises |-> None, content |-> Some(content), externas |-> externas]

\* a content is plain text (a tag and its pieces) or the text of a JSON object
TextoPlano(tag) == [clase |-> "texto", tag |-> tag]
TextoJson(d) == [clase |-> "json", d |-> d]

valid_extensions_audio ==
    {".mp3", ".mp4", ".mpeg", ".mpga", ".m4a", ".wav", ".webm", ".ogg"}
valid_extensions_imagen == {".jpg", ".jpeg", ".png", ".gif", ".webp"}

\* os.path.splitext(path)[1].lower()
FileExt(f) == Lower(f.ext)

ValidarAudio_sinFormato(f) ==
    IF ~f.existe THEN Some(Raise("FileNotFoundError", "no existe", 0))
    ELSE IF ~f.es_archivo THEN Some(Raise("ValueError", "no es un archivo valido", 0))
    ELSE IF f.mb > MaxMBAudio THEN Some(Raise("ValueError", "demasiado grande", 0))
    ELSE None

\* the checks made before the first call of Whisper: None when all pass
ValidarAudio(f) ==
    IF ~f.existe THEN Some(Raise("FileNotFoundError", "no existe", 0))
    ELSE IF ~f.es_archivo THEN Some(Raise("ValueError", "no es un archivo valido", 0))
    ELSE IF FileExt(f) \notin valid_extensions_audio
      THEN Some(Raise("ValueError", "formato no soportado", 0))
    ELSE IF f.mb > MaxMBAudio THEN Some(Raise("ValueError", "demasiado grande", 0))
    ELSE None

\* the JSON text returned after a transcription: the text and its extract
ResultadoAudio(w) ==
    TextoJson([texto_transcrito |-> "texto",
               extracto_estructurado |->
                   Some(extraer_productos_desde_texto(w.respuesta)),
               formato |-> "JSON_READY"])

\* the final call of Whisper, on the file itself or on the converted file
Transcribir(w, externas) ==
    IF w.whisper = "ok" THEN Return(ResultadoAudio(w), externas + 1)
    ELSE IF w.whisper = "rate_limit"
      THEN Return(TextoPlano("[ERROR_RATE_LIMIT]"), externas + 1)
    ELSE IF w.whisper = "invalid"
      THEN Return(TextoPlano("[ERROR_FORMAT]"), externas + 1)
    ELSE Return(TextoPlano("[ERROR_TRANSCRIPTION]"), externas + 1)

\* transcribir_audio that converts and calls again after any failure of the
\* direct call
transcribir_audio_reintenta(f, w) ==
    IF ~IsNone(ValidarAudio(f)) THEN Val(ValidarAudio(f))
    ELSE IF FileExt(f) = ".ogg"
      THEN IF w.directo = "ok" THEN Return(ResultadoAudio(w), 1)
           ELSE IF ~w.pydub THEN Return(TextoPlano("[ERROR_SETUP]"), 1)
           ELSE IF ~w.conversion THEN Return(TextoPlano("[ERROR_CONVERSION]"), 1)
           ELSE Transcribir(w, 1)
    ELSE Transcribir(w, 0)

\* transcribir_audio that goes on to the final call when the conversion
\* cannot be made
transcribir_audio_sinConversion(f, w) ==
    IF ~IsNone(ValidarAudio(f)) THEN Val(ValidarAudio(f))
    ELSE IF FileExt(f) = ".ogg"
      THEN IF w.directo = "ok" THEN Return(ResultadoAudio(w), 1)
           ELSE IF w.directo = "otro" THEN Raise("APIError", "otro", 1)
           ELSE Transcribir(w, 1)
    ELSE Transcribir(w, 0)

\* f: the file at audio_file_path; w: what the environment does (the direct
\* call of Whisper on an ogg file, pydub and ffmpeg, the final call of
\* Whisper, the language model of the extraction)
transcribir_audio(f, w) ==
    IF ~IsNone(ValidarAudio(f)) THEN Val(ValidarAudio(f))
    ELSE IF FileExt(f) = ".ogg"
      THEN IF w.directo = "ok" THEN Return(ResultadoAudio(w), 1)
           ELSE IF w.directo = "otro" THEN Raise("APIError", "otro", 1)
           ELSE IF ~w.pydub THEN Return(TextoPlano("[ERROR_SETUP]"), 1)
           ELSE IF ~w.conversion THEN Return(TextoPlano("[ERROR_CONVERSION]"), 1)
           ELSE Transcribir(w, 1)
    ELSE Transcribir(w, 0)

\* the checks made before the call of the vision model: None when all pass
ValidarImagen(f) ==
    IF ~f.existe THEN Some(Return(TextoPlano("Error: no existe"), 0))
    ELSE IF ~f.es_archivo
      THEN Some(Return(TextoPlano("Error: no es un archivo valido"), 0))
    ELSE IF FileExt(f) \notin valid_extensions_imagen
      THEN Some(Return(TextoPlano("Error: formato no soportado"), 0))
    ELSE IF f.mb > MaxMBImagen
      THEN Some(Return(TextoPlano("Error: demasiado grande"), 0))
    ELSE None

\* v: what the environment does (reading the file, the vision model, the
\* language model of the extraction)
procesar_imagen(f, v) ==
    IF ~IsNone(ValidarImagen(f)) THEN Val(ValidarImagen(f))
    ELSE IF v.vision = "ok"
      THEN Return(TextoJson([analisis_imagen |-> "texto",
                             extracto_estructurado |->
                                 Some(extraer_productos_desde_texto(v.respuesta)),
                             formato |-> "JSON_READY"]), 1)
    ELSE IF v.vision = "rate_limit"
      THEN Return(TextoPlano("Error: limite de tasa excedido"), 1)
    ELSE IF v.vision = "invalid"
      THEN Return(TextoPlano("Error: no es una imagen valida"), 1)
    ELSE Return(TextoPlano("Error al procesar imagen"), 1)

---------------------------------------------------------------------------
(* The graph: agent_node, should_continue, ToolNode, and run_agent *)

\* largest number of tool calls the language model issues in one turn
MaxLlamadas == 2
\* largest number of tool calls in one response of the language model
MaxPorRespuesta == 2

HumanMessage(content) == [rol |-> "human", content |-> content, tool_calls |-> <<>>]
AIMessage(content, tool_calls) ==
    [rol |-> "ai", content |-> content, tool_calls |-> tool_calls]
ToolMessage(content) == [rol |-> "tool", content |-> content, tool_calls |-> <<>>]

Ultimo(s) == s[Len(s)]

\* extensiones_imagen_agente taking no extension for an image
extensiones_imagen_agente_ninguna == {}

\* the extensions agent_node takes for audio and for images
extensiones_audio_agente == {".wav", ".mp3", ".m4a", ".ogg", ".flac", ".aac"}
extensiones_imagen_agente == {".jpg", ".jpeg", ".png", ".gif", ".webp"}

\* Menu offering the tools of the media in every turn
Menu_todas(media) ==
    {"transcribir_audio", "procesar_imagen", "consultar_despensa",
     "actualizar_despensa"}

\* all_tools of agent_node: the tools bound to the language model
Menu(media) ==
    IF IsNone(media) THEN {"consultar_despensa", "actualizar_despensa"}
    ELSE IF FileExt(Val(media)) \in extensiones_audio_agente
      THEN {"transcribir_audio", "consultar_despensa", "actualizar_despensa"}
    ELSE IF FileExt(Val(media)) \in extensiones_imagen_agente
      THEN {"procesar_imagen", "consultar_despensa", "actualizar_despensa"}
    ELSE {"consultar_despensa", "actualizar_despensa"}

\* the message agent_node adds the first time it sees a media file
Contexto == HumanMessage(TextoPlano("contexto: debes procesar el archivo primero"))

ConContexto(msgs, media) ==
    IF /\ ~IsNone(media)
       /\ FileExt(Val(media)) \in extensiones_audio_agente \cup extensiones_imagen_agente
       /\ \A i \in DOMAIN msgs : msgs[i] # Contexto
      THEN Append(msgs, Contexto)
      ELSE msgs

\* should_continue that never goes to the tools
should_continue_siempreEnd(msgs) == "end"

\* the conditional edge after agent: tools when the last message has tool
\* calls, end otherwise
should_continue(msgs) ==
    IF Ultimo(msgs).tool_calls # <<>> THEN "tools" ELSE "end"

\* LlamadasDelPaso running the first call only
LlamadasDelPaso_soloUna(msgs) == SubSeq(Ultimo(msgs).tool_calls, 1, 1)

\* the tool calls one step of ToolNode runs: all those of the last message
LlamadasDelPaso(msgs) == Ultimo(msgs).tool_calls

\* one tool call run on the ledger db; amb: what the environment does
EjecutarTool(db, call, amb) ==
    CASE call.name = "consultar_despensa" ->
           [db |-> db,
            res |-> Return(TextoJson(consultar_despensa(db, call.item_name)), 0)]
      [] call.name = "actualizar_despensa" ->
           LET r == actualizar_despensa(db, call.item_name, call.cantidad,
                                        None, None)
           IN  [db |-> r.db, res |-> Return(TextoJson(r.res), 0)]
      [] call.name = "transcribir_audio" ->
           [db |-> db, res |-> transcribir_audio(call.archivo, amb.audio)]
      [] call.name = "procesar_imagen" ->
           [db |-> db, res |-> procesar_imagen(call.archivo, amb.imagen)]

RECURSIVE EjecutarLlamadas(_, _, _, _, _)
\* the calls run one after another in the order orden, each on the ledger the
\* one before left; res[i] is what call i returned or raised
EjecutarLlamadas(db, calls, orden, amb, k) ==
    IF k = 0 THEN [db |-> db, res |-> [i \in {} |-> None]]
    ELSE CHOOSE despues \in
           {[db  |-> r.db,
             res |-> [i \in DOMAIN antes.res \cup {orden[k]} |->
                        IF i = orden[k] THEN r.res ELSE antes.res[i]]] :
              <<antes, r>> \in
                 {<<a, EjecutarTool(a.db, calls[orden[k]], amb)>> :
                    a \in {EjecutarLlamadas(db, calls, orden, amb, k - 1)}}} : TRUE

\* the orders in which n calls handed to a pool of threads take effect
Ordenes(n) == {f \in [1..n -> 1..n] : \A i, j \in 1..n : f[i] = f[j] => i = j}

\* the message ToolNode makes of an exception it handles
MensajeDeError(exc) == ToolMessage(TextoPlano("Error: excepcion de la herramienta"))

RECURSIVE BuscarExtracto(_, _)
\* the scan of run_agent over the first i messages, newest first: the value
\* under extracto_estructurado of the first JSON object found that has the
\* key, None when there is none
BuscarExtracto(msgs, i) ==
    IF i = 0 THEN None
    ELSE IF /\ msgs[i].content.clase = "json"
            /\ "extracto_estructurado" \in DOMAIN msgs[i].content.d
      THEN msgs[i].content.d.extracto_estructurado
    ELSE BuscarExtracto(msgs, i - 1)

---------------------------------------------------------------------------
(* Inputs *)

\* names passed to the update tool and to the query tool
Nombres == {"milk", " Leche "}
NombresConsulta == Nombres \cup {"leche"}
Cantidades == {None} \cup {Some(q) : q \in 0..MaxCantidad}
Unidades == {None, Some(""), Some("litro")}
Estados == {None, Some("ALTO"), Some(" bajo "), Some("lleno")}

\* sequences over S of length at most n
SeqHasta(S, n) == UNION {[1..k -> S] : k \in 0..n}

\* the items of an extracted intent
ProductosExtraidos ==
    {[nombre |-> Some(n), cantidad |-> c, unidad |-> Some("litro")] :
        n \in Nombres, c \in {Some(0), Some(MaxCantidad)}}
    \cup {[nombre |-> Some("milk"), cantidad |-> Some(2), unidad |-> Some("litro")],
          [nombre |-> Some(" Leche "), cantidad |-> None, unidad |-> Some("litro")],
          [nombre |-> Some("milk"), cantidad |-> None],
          [cantidad |-> Some(1), unidad |-> Some("litro")]}

ProductosConsultados == {[nombre |-> Some(n)] : n \in Nombres}

Extractos ==
    {[accion |-> Some("UPDATE"), productos |-> Some(ps), intencion |-> Some("actualizar")] :
        ps \in SeqHasta(ProductosExtraidos, MaxProductos)}
    \cup {[accion |-> Some("CREATE"), productos |-> Some(ps), intencion |-> Some("crear")] :
        ps \in SeqHasta(ProductosExtraidos, 1)}
    \cup {[accion |-> Some("QUERY"), productos |-> Some(ps), intencion |-> Some("consultar")] :
        ps \in SeqHasta(ProductosConsultados, MaxProductos)}
    \cup {[accion |-> Some("SHOPPING_LIST"), productos |-> Some(<<>>),
           intencion |-> Some("lista de compras")],
          [accion |-> Some("DELETE"), productos |-> Some(<<>>), intencion |-> Some("borrar")],
          [accion |-> Some("QUERY"), intencion |-> Some("consultar")],
          [accion |-> Some("UPDATE"), productos |-> None, intencion |-> Some("actualizar")]}

\* the JSON values the language model may write
\* the file a media path names: whether it exists, is a regular file, its
\* extension as written and its size in MB
Archivos ==
    {[existe |-> FALSE, es_archivo |-> FALSE, ext |-> ".ogg", mb |-> 0],
     [existe |-> TRUE, es_archivo |-> FALSE, ext |-> ".ogg", mb |-> 0]}
    \cup {[existe |-> TRUE, es_archivo |-> TRUE, ext |-> e, mb |-> m] :
            e \in {".ogg", ".OGG", ".mp3", ".flac", ".XYZ", ".xyz", ".jpg", ".tmp"},
            m \in {1, MaxMBImagen, MaxMBImagen + 1, MaxMBAudio, MaxMBAudio + 1}}

ValoresJson ==
    {[clase |-> "dict", d |-> e] :
        e \in {x \in Extractos :
                 \/ "productos" \notin DOMAIN x
                 \/ IsNone(x.productos)
                 \/ Val(x.productos) = <<>>
                 \/ /\ x.accion = Some("CREATE")
                    /\ "nombre" \notin DOMAIN Val(x.productos)[1]}}
    \cup {[clase |-> "dict", d |-> [productos |-> Some(<<>>)]],
          [clase |-> "list", d |-> <<>>]}

Respuestas ==
    {[raises |-> TRUE, content |-> <<>>]}
    \cup {[raises |-> FALSE, content |-> c] :
            c \in {<<>>, <<Texto>>, <<Texto, FenceJson, Texto, Fence>>,
                   <<Fence, FenceJson, Fence>>}}
    \cup {[raises |-> FALSE, content |-> c] :
            c \in UNION {{<<Json(v)>>, <<FenceJson, Json(v), Fence>>,
                          <<Fence, Json(v), Fence>>, <<Texto, Json(v)>>} :
                         v \in ValoresJson}}

\* the intent of a purchase of two litres of milk
ExtractoMilk ==
    [accion |-> Some("UPDATE"),
     productos |-> Some(<< [nombre |-> Some("milk"), cantidad |-> Some(2),
                            unidad |-> Some("litro")] >>),
     intencion |-> Some("actualizar")]

\* what the language model of the extraction answers inside a media tool
RespuestasMedia ==
    {[raises |-> TRUE, content |-> <<>>],
     [raises |-> FALSE, content |-> <<Texto>>],
     [raises |-> FALSE, content |-> <<Json([clase |-> "dict", d |-> ExtractoMilk])>>]}

\* what the environment of transcribir_audio does
AmbientesAudio ==
    [directo : {"ok", "formato", "otro"}, pydub : BOOLEAN, conversion : BOOLEAN,
     whisper : {"ok", "rate_limit", "invalid", "otro"}, respuesta : RespuestasMedia]

\* what the environment of procesar_imagen does
AmbientesImagen ==
    [vision : {"ok", "rate_limit", "invalid", "otro"}, respuesta : RespuestasMedia]

\* the number the turn of the model belongs to
Numero == "A"

ArchivoAudio == [existe |-> TRUE, es_archivo |-> TRUE, ext |-> ".ogg", mb |-> 1]
ArchivoImagen == [existe |-> TRUE, es_archivo |-> TRUE, ext |-> ".jpg", mb |-> 1]
ArchivoAusente == [existe |-> FALSE, es_archivo |-> FALSE, ext |-> ".ogg", mb |-> 0]
\* a download whose MIME type download_media does not know
ArchivoTmp == [existe |-> TRUE, es_archivo |-> TRUE, ext |-> ".tmp", mb |-> 1]

\* a text message whose text is a JSON object with the key extracto_estructurado
PayloadUsuario == TextoJson([extracto_estructurado |-> Some(ExtractoMilk)])

\* user_input and media_file_path of a turn: a text, an empty text, a text
\* that is JSON, an audio file, an image file, a file of unknown type
TurnosPosibles ==
    {[user_input |-> u, media |-> None] :
        u \in {TextoPlano("hola"), TextoPlano(""), PayloadUsuario}}
    \cup {[user_input |-> TextoPlano(""), media |-> Some(f)] :
            f \in {ArchivoAudio, ArchivoImagen, ArchivoTmp}}

\* the history the number has when the turn starts
HistorialesPrevios ==
    {<<>>,
     <<HumanMessage(TextoPlano("hola")), AIMessage(TextoPlano("respuesta"), <<>>)>>,
     <<HumanMessage(PayloadUsuario), AIMessage(TextoPlano("respuesta"), <<>>)>>}

\* the tool calls the language model may write, given the tools bound to it
LlamadasPosibles(menu) ==
    {c \in {[name |-> "consultar_despensa", item_name |-> "leche"],
            [name |-> "actualizar_despensa", item_name |-> "milk",
             cantidad |-> Some(MaxCantidad)]}
           \cup {[name |-> "transcribir_audio", archivo |-> f] :
                   f \in {ArchivoAudio, ArchivoAusente}}
           \cup {[name |-> "procesar_imagen", archivo |-> f] :
                   f \in {ArchivoImagen, ArchivoAusente}} :
        c.name \in menu}

\* what the environment does during one step of ToolNode
AmbientesTurno ==
    {[audio  |-> [directo |-> "ok", pydub |-> TRUE, conversion |-> TRUE,
                  whisper |-> "ok", respuesta |-> r],
      imagen |-> [vision |-> "ok", respuesta |-> r]] : r \in RespuestasMedia}
    \cup {[audio  |-> [directo |-> "otro", pydub |-> TRUE, conversion |-> TRUE,
                       whisper |-> "ok", respuesta |-> r],
           imagen |-> [vision |-> "otro", respuesta |-> r]] :
            r \in {[raises |-> TRUE, content |-> <<>>]}}

---------------------------------------------------------------------------
(* State machine *)

Idle == [op |-> "idle"]

\* no turn, no webhook event and no thread is running
SinAgente == mensajes = <<>> /\ nodo = "ninguno" /\ turno = <<>>
SinServidor == chat_histories = <<>> /\ enviados = <<>> /\ evento = <<>>
SinHilos == hilos = <<>>

Init ==
    /\ DESPENSA_DB = DESPENSA_DB_inicial
    /\ ultimo = Idle
    /\ SinAgente /\ SinServidor /\ SinHilos

\* one call of the tool actualizar_despensa
ToolActualizar ==
    /\ ultimo = Idle
    /\ \E item_name \in Nombres, cantidad \in Cantidades,
          unidad \in Unidades, estado \in Estados :
        LET r == actualizar_despensa(DESPENSA_DB, item_name, cantidad, unidad, estado)
        IN  /\ DESPENSA_DB' = r.db
            /\ ultimo' = [op |-> "actualizar", pre |-> DESPENSA_DB,
                          item_name |-> item_name, cantidad |-> cantidad,
                          unidad |-> unidad, estado |-> estado, res |-> r.res]
    /\ UNCHANGED <<varsAgente, varsServidor, hilos>>

\* one call of the tool consultar_despensa
ToolConsultar ==
    /\ ultimo = Idle
    /\ \E item_name \in NombresConsulta :
        /\ ultimo' = [op |-> "consultar", pre |-> DESPENSA_DB,
                      item_name |-> item_name,
                      res |-> consultar_despensa(DESPENSA_DB, item_name)]
        /\ UNCHANGED DESPENSA_DB
    /\ UNCHANGED <<varsAgente, varsServidor, hilos>>

\* one call of the tool procesar_extracto_productos
ToolProcesarExtracto ==
    /\ ultimo = Idle
    /\ \E extracto \in Extractos :
        LET r == procesar_extracto_productos(DESPENSA_DB, extracto)
        IN  /\ DESPENSA_DB' = r.db
            /\ ultimo' = [op |-> "procesar", pre |-> DESPENSA_DB,
                          extracto |-> extracto, res |-> r.res]
    /\ UNCHANGED <<varsAgente, varsServidor, hilos>>

\* one call of extraer_productos_desde_texto
Extraer ==
    /\ ultimo = Idle
    /\ \E respuesta \in Respuestas :
        /\ ultimo' = [op |-> "extraer", pre |-> DESPENSA_DB,
                      respuesta |-> respuesta,
                      res |-> extraer_productos_desde_texto(respuesta)]
        /\ UNCHANGED DESPENSA_DB
    /\ UNCHANGED <<varsAgente, varsServidor, hilos>>

\* one call of the tool transcribir_audio
ToolTranscribir ==
    /\ ultimo = Idle
    /\ \E f \in Archivos, w \in AmbientesAudio :
        ultimo' = [op |-> "transcribir", pre |-> DESPENSA_DB, archivo |-> f,
                   ambiente |-> w, res |-> transcribir_audio(f, w)]
    /\ UNCHANGED <<DESPENSA_DB, varsAgente, varsServidor, hilos>>

\* the MIME types a message of the given type may carry
MimeTypes(type) ==
    IF type = "audio"
      THEN {"audio/ogg", "audio/ogg; codecs=opus", "audio/mpeg", "audio/mp4",
            "audio/wav", "audio/x-m4a", "audio/aac", "audio/amr"}
      ELSE {"image/jpeg", "image/png", "image/webp", "image/gif"}

\* extension_map.get(mime_type, ".tmp")
extension_map(mime_type) ==
    CASE mime_type = "audio/ogg"              -> ".ogg"
      [] mime_type = "audio/ogg; codecs=opus" -> ".ogg"
      [] mime_type = "audio/mpeg"             -> ".mp3"
      [] mime_type = "audio/mp4"              -> ".m4a"
      [] mime_type = "audio/wav"              -> ".wav"
      [] mime_type = "audio/x-m4a"            -> ".m4a"
      [] mime_type = "image/jpeg"             -> ".jpg"
      [] mime_type = "image/png"              -> ".png"
      [] mime_type = "image/webp"             -> ".webp"
      [] OTHER                                -> ".tmp"

\* download_media: None when the token is missing or a request fails, else
\* the temporary file, of mb MB, whose suffix is the extension of the MIME type
download_media(mime_type, descarga, mb) ==
    IF descarga = "ok"
      THEN Some([existe |-> TRUE, es_archivo |-> TRUE,
                 ext |-> extension_map(mime_type), mb |-> mb])
      ELSE None

\* one call of download_media for a message of type audio or image
ToolDescargar ==
    /\ ultimo = Idle
    /\ \E type \in {"audio", "image"}, descarga \in {"ok", "none"},
          mb \in {1, MaxMBImagen, MaxMBAudio} :
        \E mime_type \in MimeTypes(type) :
           ultimo' = [op |-> "descargar", pre |-> DESPENSA_DB, type |-> type,
                      mime_type |-> mime_type,
                      res |-> download_media(mime_type, descarga, mb)]
    /\ UNCHANGED <<DESPENSA_DB, varsAgente, varsServidor, hilos>>

\* one call of the tool procesar_imagen
ToolImagen ==
    /\ ultimo = Idle
    /\ \E f \in Archivos, v \in AmbientesImagen :
        ultimo' = [op |-> "imagen", pre |-> DESPENSA_DB, archivo |-> f,
                   res |-> procesar_imagen(f, v)]
    /\ UNCHANGED <<DESPENSA_DB, varsAgente, varsServidor, hilos>>

\* the call returns: its value goes to the caller
Retornar ==
    /\ ultimo # Idle
    /\ ultimo' = Idle
    /\ UNCHANGED <<DESPENSA_DB, varsAgente, varsServidor, hilos>>

Next ==
    \/ ToolActualizar
    \/ ToolConsultar
    \/ ToolProcesarExtracto
    \/ Extraer
    \/ Retornar

Spec == Init /\ [][Next]_vars

\* the media tools, called on their own
NextMedia ==
    \/ ToolTranscribir
    \/ ToolImagen
    \/ ToolDescargar
    \/ Retornar

SpecMedia == Init /\ [][NextMedia]_vars

---------------------------------------------------------------------------
(* One turn: the server calls run_agent and sends the reply *)

\* a turn of Numero is about to call run_agent
InitTurno ==
    /\ DESPENSA_DB = DESPENSA_DB_inicial
    /\ ultimo = Idle
    /\ mensajes = <<>>
    /\ nodo = "inicio"
    /\ \E t \in TurnosPosibles, h \in HistorialesPrevios :
        /\ turno = [user_input |-> t.user_input, media |-> t.media,
                    llamadas |-> 0, excepcion |-> FALSE, retorno |-> None,
                    previo |-> h]
        /\ chat_histories = [n \in {Numero} |-> h]
    /\ enviados = <<>>
    /\ evento = <<>>
    /\ SinHilos

\* the message run_agent appends for the input of the turn, if any
MensajeDeEntrada(user_input, media) ==
    IF user_input # TextoPlano("") THEN <<HumanMessage(user_input)>>
    ELSE IF ~IsNone(media)
      THEN <<HumanMessage(TextoPlano("El usuario ha enviado un archivo"))>>
    ELSE <<>>

\* run_agent up to app.invoke: initial_messages is the list of the caller
\* when that list is not empty, and a new list otherwise
run_agent_invoke ==
    /\ nodo = "inicio"
    /\ LET chat_history == chat_histories[Numero]
           initial_messages ==
               chat_history \o MensajeDeEntrada(turno.user_input, turno.media)
       IN  /\ mensajes' = initial_messages
           /\ chat_histories' =
                 IF chat_history # <<>>
                   THEN [chat_histories EXCEPT ![Numero] = initial_messages]
                   ELSE chat_histories
    /\ nodo' = "agent"
    /\ UNCHANGED <<DESPENSA_DB, ultimo, turno, enviados, evento, hilos>>

\* the node agent and the conditional edge that leaves it: the language
\* model answers with at most MaxPorRespuesta tool calls of its menu, or the
\* call of the language model raises and the exception leaves run_agent
agent_node ==
    /\ nodo = "agent"
    /\ \/ \E calls \in SeqHasta(LlamadasPosibles(Menu(turno.media)), MaxPorRespuesta) :
            /\ turno.llamadas + Len(calls) <= MaxLlamadas
            /\ mensajes' = Append(ConContexto(mensajes, turno.media),
                                  AIMessage(TextoPlano("respuesta"), calls))
            /\ nodo' = should_continue(mensajes')
            /\ turno' = [turno EXCEPT !.llamadas = @ + Len(calls)]
       \/ /\ turno' = [turno EXCEPT !.excepcion = TRUE]
          /\ nodo' = "server"
          /\ UNCHANGED mensajes
    /\ UNCHANGED <<DESPENSA_DB, ultimo, chat_histories, enviados, evento, hilos>>

\* the node tools (ToolNode) and the edge back to agent: every call of the
\* last message runs, in an order the thread pool decides; an exception a
\* tool raises becomes an error message or leaves run_agent, as the default
\* handle_tool_errors of the installed langgraph decides
tool_node ==
    /\ nodo = "tools"
    /\ LET calls == LlamadasDelPaso(mensajes)
       IN  \E orden \in Ordenes(Len(calls)), amb \in AmbientesTurno, maneja \in BOOLEAN :
           \E r \in {EjecutarLlamadas(DESPENSA_DB, calls, orden, amb, Len(calls))} :
             LET falla == \E i \in DOMAIN r.res : ~IsNone(r.res[i].raises)
             IN  /\ DESPENSA_DB' = r.db
                 /\ IF falla /\ ~maneja
                      THEN /\ turno' = [turno EXCEPT !.excepcion = TRUE]
                           /\ nodo' = "server"
                           /\ UNCHANGED mensajes
                      ELSE /\ mensajes' = mensajes \o
                                [i \in 1..Len(calls) |->
                                   IF IsNone(r.res[i].raises)
                                     THEN ToolMessage(Val(r.res[i].content))
                                     ELSE MensajeDeError(Val(r.res[i].raises))]
                           /\ nodo' = "agent"
                           /\ UNCHANGED turno
    /\ UNCHANGED <<ultimo, chat_histories, enviados, evento, hilos>>

\* run_agent after app.invoke: the reply is the content of the last message;
\* the extract found by the scan, if it is truthy, is applied to the ledger
run_agent_return ==
    /\ nodo = "end"
    /\ \E extracto_estructurado \in {BuscarExtracto(mensajes, Len(mensajes))} :
         IF ~IsNone(extracto_estructurado)
           THEN \E r \in {procesar_extracto_productos(DESPENSA_DB,
                                                       Val(extracto_estructurado))} :
                    /\ DESPENSA_DB' = r.db
                    /\ turno' = [turno EXCEPT !.retorno =
                          Some([clase |-> "dict",
                                respuesta |-> Ultimo(mensajes).content,
                                extracto_estructurado |-> Val(extracto_estructurado),
                                resultado_procesado |-> r.res,
                                formato |-> "JSON_READY"])]
           ELSE /\ turno' = [turno EXCEPT !.retorno =
                          Some([clase |-> "str",
                                respuesta |-> Ultimo(mensajes).content])]
                /\ UNCHANGED DESPENSA_DB
    /\ nodo' = "server"
    /\ UNCHANGED <<ultimo, mensajes, chat_histories, enviados, evento, hilos>>

\* Enviar that attempts nothing
Enviar_nada(env, to, message) == env

\* send_whatsapp_message: one attempt to send message to the number to
Enviar(env, to, message) == Append(env, [to |-> to, message |-> message])

\* what the server appends to the history for the input of the turn
EntradaDelHistorial(user_input, media) ==
    IF IsNone(media) THEN HumanMessage(user_input)
    ELSE HumanMessage(TextoPlano("Archivo: ruta"))

\* process_text_message, process_audio_message and process_image_message
\* after run_agent: the reply is sent and the history updated, or the
\* exception is caught and the apology is sent
process_message ==
    /\ nodo = "server"
    /\ IF turno.excepcion
         THEN /\ enviados' = Enviar(enviados, Numero, TextoPlano("Lo siento, hubo un error"))
              /\ UNCHANGED chat_histories
         ELSE LET respuesta_texto == Val(turno.retorno).respuesta
              IN  /\ enviados' = Enviar(enviados, Numero, respuesta_texto)
                  /\ chat_histories' =
                        [chat_histories EXCEPT ![Numero] =
                           @ \o <<EntradaDelHistorial(turno.user_input, turno.media),
                                  AIMessage(respuesta_texto, <<>>)>>]
    /\ nodo' = "fin"
    /\ UNCHANGED <<DESPENSA_DB, ultimo, mensajes, turno, evento, hilos>>

NextTurno ==
    \/ run_agent_invoke
    \/ agent_node
    \/ tool_node
    \/ run_agent_return
    \/ process_message

SpecTurno == InitTurno /\ [][NextTurno]_vars

\* every step of the turn that can be taken is taken at some time: the
\* calls of the language model, of the tools and of the channel return
SpecTurnoJusto == SpecTurno /\ WF_vars(NextTurno)

---------------------------------------------------------------------------
(* SpecWebhook: handle_webhook over the messages of one event *)

\* largest number of messages in one webhook event
MaxMensajes == 2

\* the value of message.get("from"): absent, empty, or a number
Remitentes == {None, Some(""), Some("A"), Some("B")}

\* a message of the event: its sender, its type, and whether the object its
\* type names (text, audio, image) is an object, is absent or is null
MensajesPosibles ==
    [from : Remitentes,
     type : {"text", "audio", "image", "sticker"},
     dato : {"objeto"}]
    \cup [from : Remitentes, type : {"text", "audio", "image"}, dato : {"ausente"}]
    \cup [from : Remitentes, type : {"text"}, dato : {"nulo"}]

\* the histories the server holds when the event arrives
HistoriasPrevias ==
    {[n \in {} |-> <<>>],
     [n \in {"A"} |-> <<HumanMessage(TextoPlano("hola")),
                        AIMessage(TextoPlano("respuesta"), <<>>)>>]}

\* message.get("text", {}).get("body", "") raises when text is null
TextoNulo(m) == m.type = "text" /\ m.dato = "nulo"

\* SinNumero that takes the empty string for a number
SinNumero_soloNone(m) == IsNone(m.from)

\* if not from_number
SinNumero(m) == IsNone(m.from) \/ m.from = Some("")

\* text_body of a text message
text_body(m) == IF m.dato = "objeto" THEN TextoPlano("hola") ELSE TextoPlano("")

\* ConHistorial that starts the history of a new number from the histories
\* the server already holds
ConHistorial_compartido(ch, n) ==
    [k \in DOMAIN ch \cup {n} |->
        IF k \in DOMAIN ch THEN ch[k]
        ELSE IF DOMAIN ch = {} THEN <<>>
        ELSE ch[CHOOSE b \in DOMAIN ch : TRUE]]

\* chat_histories after lines 398-399: the number has a history
ConHistorial(ch, n) ==
    [k \in DOMAIN ch \cup {n} |-> IF k \in DOMAIN ch THEN ch[k] ELSE <<>>]

\* what one call run_agent(user_input, chat_history, media) leaves: the
\* history of the caller with the input appended in place when it was not
\* empty, the ledger as the tools and the extract of the turn left it, and
\* the value returned or the exception raised
run_agent(chat_history, db, user_input, media) ==
    LET historial == IF chat_history # <<>>
                       THEN chat_history \o MensajeDeEntrada(user_input, media)
                       ELSE chat_history
        escrito == procesar_extracto_productos(db, ExtractoMilk)
    IN  {[historial |-> h, db |-> d, excepcion |-> TRUE, retorno |-> None] :
            h \in {chat_history, historial}, d \in {db, escrito.db}}
        \cup {[historial |-> historial, db |-> d, excepcion |-> FALSE,
               retorno |-> Some([clase |-> "str",
                                 respuesta |-> TextoPlano("respuesta")])] :
                d \in {db, escrito.db}}
        \cup {[historial |-> historial, db |-> escrito.db, excepcion |-> FALSE,
               retorno |-> Some([clase |-> "dict",
                                 respuesta |-> TextoPlano("respuesta"),
                                 extracto_estructurado |-> ExtractoMilk,
                                 resultado_procesado |-> escrito.res,
                                 formato |-> "JSON_READY"])]}

\* Responder without the apology of the except branch
Responder_sinDisculpa(ch, env, n, r, user_input, media) ==
    IF r.excepcion
      THEN [chat_histories |-> [ch EXCEPT ![n] = r.historial], enviados |-> env]
      ELSE [chat_histories |->
                [ch EXCEPT ![n] = r.historial
                               \o <<EntradaDelHistorial(user_input, media),
                                    AIMessage(Val(r.retorno).respuesta, <<>>)>>],
            enviados |-> Enviar(env, n, Val(r.retorno).respuesta)]

\* process_text_message / process_audio_message / process_image_message from
\* the call of run_agent on: r is what run_agent left
Responder(ch, env, n, r, user_input, media) ==
    IF r.excepcion
      THEN [chat_histories |-> [ch EXCEPT ![n] = r.historial],
            enviados |-> Enviar(env, n, TextoPlano("Lo siento, hubo un error"))]
      ELSE [chat_histories |->
                [ch EXCEPT ![n] = r.historial
                               \o <<EntradaDelHistorial(user_input, media),
                                    AIMessage(Val(r.retorno).respuesta, <<>>)>>],
            enviados |-> Enviar(env, n, Val(r.retorno).respuesta)]

\* what download_media and the checks on the downloaded file give
Descargas(type) ==
    IF type = "audio" THEN {"ok", "none", "no_existe", "vacio"} ELSE {"ok", "none"}

InitWebhook ==
    /\ DESPENSA_DB = DESPENSA_DB_inicial
    /\ ultimo = Idle
    /\ SinAgente
    /\ SinHilos
    /\ chat_histories \in HistoriasPrevias
    /\ enviados = <<>>
    /\ \E msgs \in SeqHasta(MensajesPosibles, MaxMensajes) :
        /\ msgs # <<>>
        /\ evento = [messages |-> msgs, i |-> 1, status |-> "running"]

\* the message the loop of handle_webhook is at
Mensaje == evento.messages[evento.i]

EnCurso == evento.status = "running" /\ evento.i <= Len(evento.messages)

Siguiente == evento' = [evento EXCEPT !.i = @ + 1]

\* lines 379-381 raise on a text that is null: the except of line 465 ends
\* the request with status 500 and the rest of the event is not processed
webhook_excepcion ==
    /\ EnCurso
    /\ TextoNulo(Mensaje)
    /\ evento' = [evento EXCEPT !.status = "500"]
    /\ UNCHANGED <<DESPENSA_DB, ultimo, varsAgente, chat_histories, enviados, hilos>>

\* lines 391-395: the message has no number
webhook_sin_numero ==
    /\ EnCurso
    /\ ~TextoNulo(Mensaje)
    /\ SinNumero(Mensaje)
    /\ Siguiente
    /\ UNCHANGED <<DESPENSA_DB, ultimo, varsAgente, chat_histories, enviados, hilos>>

\* lines 419-424 and process_text_message
webhook_text ==
    /\ EnCurso
    /\ ~TextoNulo(Mensaje)
    /\ ~SinNumero(Mensaje)
    /\ Mensaje.type = "text"
    /\ LET from_number == Val(Mensaje.from)
           ch == ConHistorial(chat_histories, from_number)
       IN  \E r \in run_agent(ch[from_number], DESPENSA_DB, text_body(Mensaje), None) :
           \E f \in {Responder(ch, enviados, from_number, r, text_body(Mensaje), None)} :
              /\ DESPENSA_DB' = r.db
              /\ chat_histories' = f.chat_histories
              /\ enviados' = f.enviados
    /\ Siguiente
    /\ UNCHANGED <<ultimo, varsAgente, hilos>>

\* lines 426-448, process_audio_message and process_image_message: without
\* the object of the media nothing is sent; a download that fails, a file
\* that is missing or empty give one message of error
webhook_media ==
    /\ EnCurso
    /\ ~SinNumero(Mensaje)
    /\ Mensaje.type \in {"audio", "image"}
    /\ LET from_number == Val(Mensaje.from)
           ch == ConHistorial(chat_histories, from_number)
           media == Some(IF Mensaje.type = "audio" THEN ArchivoAudio ELSE ArchivoImagen)
       IN  IF Mensaje.dato # "objeto"
             THEN /\ chat_histories' = ch
                  /\ UNCHANGED <<DESPENSA_DB, enviados>>
             ELSE \E descarga \in Descargas(Mensaje.type) :
                    IF descarga # "ok"
                      THEN /\ enviados' = Enviar(enviados, from_number,
                                                 TextoPlano("Lo siento, no pude descargar"))
                           /\ chat_histories' = ch
                           /\ UNCHANGED DESPENSA_DB
                      ELSE \E r \in run_agent(ch[from_number], DESPENSA_DB,
                                              TextoPlano(""), media) :
                           \E f \in {Responder(ch, enviados, from_number, r,
                                               TextoPlano(""), media)} :
                              /\ DESPENSA_DB' = r.db
                              /\ chat_histories' = f.chat_histories
                              /\ enviados' = f.enviados
    /\ Siguiente
    /\ UNCHANGED <<ultimo, varsAgente, hilos>>

\* lines 450-458: a type that is not text, audio, voice or image
webhook_no_soportado ==
    /\ EnCurso
    /\ ~SinNumero(Mensaje)
    /\ Mensaje.type \notin {"text", "audio", "image"}
    /\ chat_histories' = ConHistorial(chat_histories, Val(Mensaje.from))
    /\ enviados' = Enviar(enviados, Val(Mensaje.from),
                          TextoPlano("Lo siento, solo puedo procesar"))
    /\ Siguiente
    /\ UNCHANGED <<DESPENSA_DB, ultimo, varsAgente, hilos>>

\* line 463: every message was processed
webhook_return ==
    /\ evento.status = "running"
    /\ evento.i > Len(evento.messages)
    /\ evento' = [evento EXCEPT !.status = "200"]
    /\ UNCHANGED <<DESPENSA_DB, ultimo, varsAgente, chat_histories, enviados, hilos>>

NextWebhook ==
    \/ webhook_excepcion
    \/ webhook_sin_numero
    \/ webhook_text
    \/ webhook_media
    \/ webhook_no_soportado
    \/ webhook_return

SpecWebhook == InitWebhook /\ [][NextWebhook]_vars

---------------------------------------------------------------------------
(* SpecUpserts: two calls of actualizar_despensa that run concurrently *)

\* the two threads: two requests of the server, or two tool calls of one
\* answer in the pool of ToolNode
Hilos == {1, 2}

\* the arguments of one call
ArgumentosUpsert ==
    [item_name : {"milk", "MILK", "pan"},
     cantidad  : {None, Some(0), Some(MaxCantidad)},
     unidad    : {None, Some("kg")},
     estado    : {None, Some("BAJO"), Some("lleno")}]

\* estado_upper of the call with arguments a
EstadoDe(a) == EstadoUpper(EstadoCalculado(a.cantidad, a.estado))

\* the dict the call builds at lines 275-279 from its arguments and from
\* the entry it read at line 271
EntradaConstruida(h) ==
    [nombre |-> Clave(h.args.item_name),
     stock  |-> StockNuevo(h.args.cantidad, h.producto_existente),
     unidad |-> UnidadODefecto(h.args.unidad),
     estado |-> EstadoDe(h.args)]

\* Escribir that keeps the unit of an entry that is already there
Escribir_porCampos(db, h) ==
    LET e == EntradaConstruida(h)
        k == e.nombre
    IN  DbSet(db, k, e.stock,
              IF DbHas(db, k) THEN Val(DbGet(db, k)).unidad ELSE e.unidad,
              e.estado)

\* DESPENSA_DB[item_name_lower] = {...}: one store of the whole dict
Escribir(db, h) ==
    LET e == EntradaConstruida(h)
    IN  DbSet(db, e.nombre, e.stock, e.unidad, e.estado)

InitUpserts ==
    /\ DESPENSA_DB = DESPENSA_DB_inicial
    /\ ultimo = Idle
    /\ SinAgente
    /\ SinServidor
    /\ \E a1, a2 \in ArgumentosUpsert :
        hilos = [t \in Hilos |->
                    [args |-> IF t = 1 THEN a1 ELSE a2, pc |-> "leer",
                     producto_existente |-> None, escrito |-> None,
                     res |-> None]]

\* lines 244-272: the status is computed and validated, and the entry of the
\* key is read
upsert_leer ==
    /\ \E t \in Hilos :
        /\ hilos[t].pc = "leer"
        /\ IF EstadoDe(hilos[t].args) \notin estados_validos
             THEN hilos' = [hilos EXCEPT
                     ![t].pc = "fin",
                     ![t].res = Some([accion |-> "UPDATE", exito |-> FALSE,
                                      producto |-> hilos[t].args.item_name])]
             ELSE hilos' = [hilos EXCEPT
                     ![t].pc = "escribir",
                     ![t].producto_existente =
                         DbGet(DESPENSA_DB, Clave(hilos[t].args.item_name))]
    /\ UNCHANGED <<DESPENSA_DB, ultimo, varsAgente, varsServidor>>

\* lines 275-279: the entry is built and stored
upsert_escribir ==
    /\ \E t \in Hilos :
        /\ hilos[t].pc = "escribir"
        /\ DESPENSA_DB' = Escribir(DESPENSA_DB, hilos[t])
        /\ hilos' = [hilos EXCEPT ![t].pc = "resultado",
                                  ![t].escrito = Some(EntradaConstruida(hilos[t]))]
    /\ UNCHANGED <<ultimo, varsAgente, varsServidor>>

\* lines 281-291: the result reads the stock of the entry again when no
\* quantity was passed
upsert_resultado ==
    /\ \E t \in Hilos :
        /\ hilos[t].pc = "resultado"
        /\ LET a == hilos[t].args
               es_nuevo == IsNone(hilos[t].producto_existente)
               actual == Val(DbGet(DESPENSA_DB, Clave(a.item_name)))
           IN  hilos' = [hilos EXCEPT
                 ![t].pc = "fin",
                 ![t].res = Some([accion |-> IF es_nuevo THEN "CREATE" ELSE "UPDATE",
                                  producto |-> a.item_name, exito |-> TRUE,
                                  stock |-> IF ~IsNone(a.cantidad) THEN Val(a.cantidad)
                                            ELSE actual.stock,
                                  unidad |-> UnidadODefecto(a.unidad),
                                  estado |-> EstadoDe(a)])]
    /\ UNCHANGED <<DESPENSA_DB, ultimo, varsAgente, varsServidor>>

NextUpserts ==
    \/ upsert_leer
    \/ upsert_escribir
    \/ upsert_resultado

SpecUpserts == InitUpserts /\ [][NextUpserts]_vars

---------------------------------------------------------------------------
(* SpecTurnos: two text messages of one number served concurrently *)

\* the text of the message the thread t serves
TextoDe(t) == IF t = 1 THEN TextoPlano("uno") ELSE TextoPlano("dos")

\* the reply of the agent to the message of the thread t
RespuestaDe(t) ==
    IF t = 1 THEN TextoPlano("respuesta uno") ELSE TextoPlano("respuesta dos")

\* PuedeAvanzar under a lock held for the whole turn
PuedeAvanzar_conCerrojo(h, t) ==
    \A u \in Hilos \ {t} : h[u].pc \in {"verificar", "fin"}

\* what a step of the thread t waits for: nothing, no lock is taken between
\* the lookup of the history and the last append
PuedeAvanzar(h, t) == TRUE

\* chat_history.append(msg) by the thread t: on the list of chat_histories
\* when the list of the thread is that one, else on the list that only the
\* thread still holds
Agregar(t, msg, pc) ==
    IF hilos[t].lista = "mapa"
      THEN /\ chat_histories' = [chat_histories EXCEPT ![Numero] = Append(@, msg)]
           /\ hilos' = [hilos EXCEPT ![t].pc = pc,
                                     ![t].agregados = Append(@, msg)]
      ELSE /\ hilos' = [hilos EXCEPT ![t].pc = pc,
                                     ![t].propia = Append(@, msg),
                                     ![t].agregados = Append(@, msg)]
           /\ UNCHANGED chat_histories

InitTurnos ==
    /\ DESPENSA_DB = DESPENSA_DB_inicial
    /\ ultimo = Idle
    /\ SinAgente
    /\ enviados = <<>>
    /\ evento = <<>>
    /\ chat_histories \in
          HistoriasPrevias \cup {[n \in {Numero} |-> <<>>]}
    /\ hilos = [t \in Hilos |->
                  [pc |-> "verificar", lista |-> "ninguna", propia |-> <<>>,
                   alias |-> FALSE, excepcion |-> FALSE, agregados |-> <<>>]]

\* line 398: from_number not in chat_histories
turnos_verificar ==
    /\ \E t \in Hilos :
        /\ hilos[t].pc = "verificar"
        /\ PuedeAvanzar(hilos, t)
        /\ hilos' = [hilos EXCEPT ![t].pc =
                        IF Numero \in DOMAIN chat_histories THEN "obtener" ELSE "crear"]
    /\ UNCHANGED <<DESPENSA_DB, ultimo, varsAgente, varsServidor>>

\* line 399: chat_histories[from_number] = []; a thread that already holds
\* the list stored before keeps that list, which is no longer the stored one
turnos_crear ==
    /\ \E t \in Hilos :
        /\ hilos[t].pc = "crear"
        /\ PuedeAvanzar(hilos, t)
        /\ chat_histories' = [n \in DOMAIN chat_histories \cup {Numero} |->
                                IF n = Numero THEN <<>> ELSE chat_histories[n]]
        /\ hilos' = [u \in Hilos |->
                       IF u = t THEN [hilos[u] EXCEPT !.pc = "obtener"]
                       ELSE IF hilos[u].lista = "mapa"
                         THEN [hilos[u] EXCEPT !.lista = "propia",
                                               !.propia = chat_histories[Numero]]
                       ELSE hilos[u]]
    /\ UNCHANGED <<DESPENSA_DB, ultimo, varsAgente, enviados, evento>>

\* line 404: chat_history = chat_histories[from_number]
turnos_obtener ==
    /\ \E t \in Hilos :
        /\ hilos[t].pc = "obtener"
        /\ PuedeAvanzar(hilos, t)
        /\ hilos' = [hilos EXCEPT ![t].pc = "run_agent", ![t].lista = "mapa"]
    /\ UNCHANGED <<DESPENSA_DB, ultimo, varsAgente, varsServidor>>

\* run_agent, line 908: initial_messages is the list of the caller when it
\* is not empty
turnos_run_agent ==
    /\ \E t \in Hilos :
        /\ hilos[t].pc = "run_agent"
        /\ PuedeAvanzar(hilos, t)
        /\ LET chat_history == IF hilos[t].lista = "mapa"
                                 THEN chat_histories[Numero] ELSE hilos[t].propia
           IN  hilos' = [hilos EXCEPT ![t].pc = "entrada",
                                      ![t].alias = (chat_history # <<>>)]
    /\ UNCHANGED <<DESPENSA_DB, ultimo, varsAgente, varsServidor>>

\* run_agent, line 912: initial_messages.append(HumanMessage(user_input))
turnos_entrada ==
    /\ \E t \in Hilos :
        /\ hilos[t].pc = "entrada"
        /\ PuedeAvanzar(hilos, t)
        /\ IF hilos[t].alias
             THEN Agregar(t, HumanMessage(TextoDe(t)), "invoke")
             ELSE /\ hilos' = [hilos EXCEPT ![t].pc = "invoke"]
                  /\ UNCHANGED chat_histories
    /\ UNCHANGED <<DESPENSA_DB, ultimo, varsAgente, enviados, evento>>

\* run_agent from app.invoke to its return: the graph works on its own
\* state; the turn may write the ledger, and returns or raises
turnos_invoke ==
    /\ \E t \in Hilos :
        /\ hilos[t].pc = "invoke"
        /\ PuedeAvanzar(hilos, t)
        /\ \E r \in run_agent(<<>>, DESPENSA_DB, TextoDe(t), None) :
             /\ DESPENSA_DB' = r.db
             /\ hilos' = [hilos EXCEPT ![t].pc = "enviar",
                                       ![t].excepcion = r.excepcion]
    /\ UNCHANGED <<ultimo, varsAgente, varsServidor>>

\* line 551, or lines 559-562 after an exception
turnos_enviar ==
    /\ \E t \in Hilos :
        /\ hilos[t].pc = "enviar"
        /\ PuedeAvanzar(hilos, t)
        /\ IF hilos[t].excepcion
             THEN /\ enviados' = Enviar(enviados, Numero,
                                        TextoPlano("Lo siento, hubo un error"))
                  /\ hilos' = [hilos EXCEPT ![t].pc = "fin"]
             ELSE /\ enviados' = Enviar(enviados, Numero, RespuestaDe(t))
                  /\ hilos' = [hilos EXCEPT ![t].pc = "human"]
    /\ UNCHANGED <<DESPENSA_DB, ultimo, varsAgente, chat_histories, evento>>

\* line 554: chat_history.append(HumanMessage(content=text))
turnos_human ==
    /\ \E t \in Hilos :
        /\ hilos[t].pc = "human"
        /\ PuedeAvanzar(hilos, t)
        /\ Agregar(t, HumanMessage(TextoDe(t)), "ai")
    /\ UNCHANGED <<DESPENSA_DB, ultimo, varsAgente, enviados, evento>>

\* line 555: chat_history.append(AIMessage(content=respuesta_texto))
turnos_ai ==
    /\ \E t \in Hilos :
        /\ hilos[t].pc = "ai"
        /\ PuedeAvanzar(hilos, t)
        /\ Agregar(t, AIMessage(RespuestaDe(t), <<>>), "fin")
    /\ UNCHANGED <<DESPENSA_DB, ultimo, varsAgente, enviados, evento>>

NextTurnos ==
    \/ turnos_verificar
    \/ turnos_crear
    \/ turnos_obtener
    \/ turnos_run_agent
    \/ turnos_entrada
    \/ turnos_invoke
    \/ turnos_enviar
    \/ turnos_human
    \/ turnos_ai

SpecTurnos == InitTurnos /\ [][NextTurnos]_vars

---------------------------------------------------------------------------
(* SpecBucle: a turn in which the language model answers every time with a
   tool call *)

\* app.invoke(initial_state) passes no config: the graph runs with the
\* recursion limit of the library, 25 steps of its nodes
recursion_limit == 25

\* the answers of the language model in this turn: always with a tool call
RespuestasDelBucle ==
    {<< [name |-> "consultar_despensa", item_name |-> "leche"] >>,
     << [name |-> "actualizar_despensa", item_name |-> "milk",
         cantidad |-> Some(MaxCantidad)] >>}

InitBucle ==
    /\ DESPENSA_DB = DESPENSA_DB_inicial
    /\ ultimo = Idle
    /\ mensajes = <<>>
    /\ nodo = "inicio"
    /\ turno = [user_input |-> TextoPlano("hola"), media |-> None,
                llamadas |-> 0, excepcion |-> FALSE, retorno |-> None,
                pasos |-> 0, despachos |-> 0]
    /\ chat_histories = [n \in {Numero} |-> <<>>]
    /\ enviados = <<>>
    /\ evento = <<>>
    /\ SinHilos

\* EnLimite of a graph that counts no steps
EnLimite_nunca(pasos) == FALSE

\* the graph has run as many steps as the recursion limit allows
EnLimite(pasos) == pasos >= recursion_limit

\* the node agent within the limit: the language model answers with a tool
\* call and the conditional edge is taken
bucle_agent ==
    /\ nodo = "agent"
    /\ ~EnLimite(turno.pasos)
    /\ \E calls \in RespuestasDelBucle :
        /\ mensajes' = Append(ConContexto(mensajes, turno.media),
                              AIMessage(TextoPlano("respuesta"), calls))
        /\ turno' = [turno EXCEPT !.llamadas = @ + Len(calls), !.pasos = @ + 1]
    /\ nodo' = should_continue(mensajes')
    /\ UNCHANGED <<DESPENSA_DB, ultimo, chat_histories, enviados, evento, hilos>>

\* the node tools within the limit
bucle_tools ==
    /\ nodo = "tools"
    /\ ~EnLimite(turno.pasos)
    /\ LET calls == LlamadasDelPaso(mensajes)
       IN  \E orden \in Ordenes(Len(calls)), amb \in AmbientesTurno :
           \E r \in {EjecutarLlamadas(DESPENSA_DB, calls, orden, amb, Len(calls))} :
              /\ DESPENSA_DB' = r.db
              /\ mensajes' = mensajes \o
                    [i \in 1..Len(calls) |-> ToolMessage(Val(r.res[i].content))]
    /\ turno' = [turno EXCEPT !.pasos = @ + 1, !.despachos = @ + 1]
    /\ nodo' = "agent"
    /\ UNCHANGED <<ultimo, chat_histories, enviados, evento, hilos>>

\* a node is due and the limit is reached: the graph raises
\* GraphRecursionError, which leaves app.invoke and run_agent
bucle_limite ==
    /\ nodo \in {"agent", "tools"}
    /\ EnLimite(turno.pasos)
    /\ turno' = [turno EXCEPT !.excepcion = TRUE]
    /\ nodo' = "server"
    /\ UNCHANGED <<DESPENSA_DB, ultimo, mensajes, chat_histories, enviados,
                   evento, hilos>>

NextBucle ==
    \/ run_agent_invoke
    \/ bucle_agent
    \/ bucle_tools
    \/ bucle_limite
    \/ process_message

SpecBucle == InitBucle /\ [][NextBucle]_vars

---------------------------------------------------------------------------
(* SpecConSigno: the ledger tools called with quantities of either sign *)

\* cantidad is declared Optional[int]: the integers around zero
CantidadesConSigno == {None} \cup {Some(q) : q \in -MaxCantidad..MaxCantidad}

\* the intents of one item whose quantity has either sign
ExtractosConSigno ==
    {[accion |-> Some(a),
      productos |-> Some(<< [nombre |-> Some(n), cantidad |-> c,
                             unidad |-> Some("litro")] >>),
      intencion |-> Some("actualizar")] :
        a \in {"UPDATE", "CREATE"}, n \in Nombres, c \in CantidadesConSigno}

\* one call of the tool actualizar_despensa
ToolActualizarConSigno ==
    /\ ultimo = Idle
    /\ \E item_name \in Nombres, cantidad \in CantidadesConSigno :
        LET r == actualizar_despensa(DESPENSA_DB, item_name, cantidad, None, None)
        IN  /\ DESPENSA_DB' = r.db
            /\ ultimo' = [op |-> "actualizar", pre |-> DESPENSA_DB,
                          item_name |-> item_name, cantidad |-> cantidad,
                          unidad |-> None, estado |-> None, res |-> r.res]
    /\ UNCHANGED <<varsAgente, varsServidor, hilos>>

\* one call of the tool procesar_extracto_productos
ToolProcesarConSigno ==
    /\ ultimo = Idle
    /\ \E extracto \in ExtractosConSigno :
        LET r == procesar_extracto_productos(DESPENSA_DB, extracto)
        IN  /\ DESPENSA_DB' = r.db
            /\ ultimo' = [op |-> "procesar", pre |-> DESPENSA_DB,
                          extracto |-> extracto, res |-> r.res]
    /\ UNCHANGED <<varsAgente, varsServidor, hilos>>

NextConSigno ==
    \/ ToolActualizarConSigno
    \/ ToolProcesarConSigno
    \/ ToolConsultar
    \/ Retornar

SpecConSigno == Init /\ [][NextConSigno]_vars

---------------------------------------------------------------------------
(* Properties *)

\* the derivation law of the specification: 0 is LOW, 1..2 is MEDIUM, more is HIGH
LeyEstado(q) == IF q = 0 THEN "BAJO" ELSE IF q \in 1..2 THEN "MEDIO" ELSE "ALTO"

\* the entry of the ledger db that item_name addresses
Entrada(db, item_name) == DbGet(db, Clave(item_name))

\* the entries of db other than the one with key k, in order
Otras(db, k) == SelectSeq(db, LAMBDA e : e.nombre # k)

\* a call of actualizar_despensa with a quantity and no status has returned
C1_Caso ==
    /\ ultimo.op = "actualizar"
    /\ IsNone(ultimo.estado)
    /\ ~IsNone(ultimo.cantidad)
    /\ Val(ultimo.cantidad) >= 0

\* C1: after an upsert with a quantity q >= 0 and no explicit status, the
\* status stored for the item is BAJO iff q = 0, MEDIO iff 1 <= q <= 2 and
\* ALTO iff q > 2.
C1_LeyDeEstado ==
    C1_Caso =>
        LET q == Val(ultimo.cantidad)
            e == Entrada(DESPENSA_DB, ultimo.item_name)
        IN  /\ ~IsNone(e)
            /\ (Val(e).estado = "BAJO") <=> (q = 0)
            /\ (Val(e).estado = "MEDIO") <=> (1 <= q /\ q <= 2)
            /\ (Val(e).estado = "ALTO") <=> (q > 2)

C1_Testigo ==
    /\ C1_Caso
    /\ Val(ultimo.cantidad) = 2
    /\ Val(Entrada(DESPENSA_DB, ultimo.item_name)).estado = "MEDIO"

\* the intent {UPDATE, [milk, 2, litro]} has been applied to a ledger without milk
C2_Caso ==
    /\ ultimo.op = "procesar"
    /\ ultimo.extracto = ExtractoMilk
    /\ ~DbHas(ultimo.pre, "milk")

\* C2 as stated: the ledger then holds milk with quantity 2, unit litro and
\* status ALTO, and the outcome of the item is marked as created.
C2_Original ==
    C2_Caso =>
        /\ DbGet(DESPENSA_DB, "milk")
             = Some([nombre |-> "milk", stock |-> 2, unidad |-> "litro", estado |-> "ALTO"])
        /\ ultimo.res.resultados[1].accion = "CREATE"

\* C2, amended: the ledger then holds milk with quantity 2, unit litro and
\* status MEDIO (the status the derivation law gives for 2), the other entries
\* are as before, and the single outcome is marked as created.
C2_CompraMedio ==
    C2_Caso =>
        /\ DbGet(DESPENSA_DB, "milk")
             = Some([nombre |-> "milk", stock |-> 2, unidad |-> "litro", estado |-> "MEDIO"])
        /\ Otras(DESPENSA_DB, "milk") = ultimo.pre
        /\ Len(ultimo.res.resultados) = 1
        /\ ultimo.res.resultados[1].accion = "CREATE"
        /\ ultimo.res.resultados[1].exito

C2_Testigo == C2_Caso /\ DbHas(DESPENSA_DB, "milk")

\* upsert(name, q, u) has returned: a quantity and a unit were passed, no status
C3_Caso ==
    /\ ultimo.op = "actualizar"
    /\ IsNone(ultimo.estado)
    /\ ~IsNone(ultimo.cantidad)
    /\ ~IsNone(ultimo.unidad)

\* C3 as stated: get(name) right after upsert(name, q, u) is found and returns
\* that name, q, u and the status derived from q.
C3_Original ==
    C3_Caso =>
        LET r == consultar_despensa(DESPENSA_DB, ultimo.item_name)
        IN  /\ r.encontrado
            /\ r.producto = ultimo.item_name
            /\ r.stock = Val(ultimo.cantidad)
            /\ r.unidad = Val(ultimo.unidad)
            /\ r.estado = LeyEstado(Val(ultimo.cantidad))

\* C3, amended: get(name) right after upsert(name, q, u) is found and returns
\* that name, q, the status derived from q, and the unit u when u is not the
\* empty string; for the empty string it returns the default unit "unidad".
C3_IdaYVuelta ==
    C3_Caso =>
        LET r == consultar_despensa(DESPENSA_DB, ultimo.item_name)
        IN  /\ r.encontrado
            /\ r.producto = ultimo.item_name
            /\ r.stock = Val(ultimo.cantidad)
            /\ r.unidad = IF Val(ultimo.unidad) = "" THEN "unidad" ELSE Val(ultimo.unidad)
            /\ r.estado = LeyEstado(Val(ultimo.cantidad))

C3_Testigo ==
    /\ C3_Caso
    /\ ultimo.item_name = " Leche "
    /\ ultimo.unidad = Some("litro")
    /\ Val(ultimo.cantidad) = MaxCantidad
    /\ Val(Entrada(ultimo.pre, " Leche ")).stock # MaxCantidad

\* an UPDATE intent has been applied
C4_Caso ==
    /\ ultimo.op = "procesar"
    /\ ultimo.extracto.accion = Some("UPDATE")

\* C4: applying the same UPDATE intent once more leaves the ledger exactly as
\* the first application left it.
C4_Idempotente ==
    C4_Caso =>
        procesar_extracto_productos(DESPENSA_DB, ultimo.extracto).db = DESPENSA_DB

C4_Testigo ==
    /\ C4_Caso
    /\ ~IsNone(ultimo.extracto.productos)
    /\ Len(Val(ultimo.extracto.productos)) = 2
    /\ Val(ultimo.extracto.productos)[1] # Val(ultimo.extracto.productos)[2]
    /\ Len(DESPENSA_DB) = Len(ultimo.pre) + 1
    /\ Otras(DESPENSA_DB, "milk") # ultimo.pre

\* a SHOPPING_LIST intent has been applied
C5_Caso ==
    /\ ultimo.op = "procesar"
    /\ ultimo.extracto.accion = Some("SHOPPING_LIST")

\* the products of the shopping list returned
C5_Lista == ultimo.res.resultados[1].productos

C5_Listados == {C5_Lista[i].nombre : i \in DOMAIN C5_Lista}

\* C5 as stated: the list holds exactly the entries whose status is BAJO.
C5_Original ==
    C5_Caso =>
        C5_Listados = {DESPENSA_DB[i].nombre : i \in {j \in DOMAIN DESPENSA_DB :
                                                     DESPENSA_DB[j].estado = "BAJO"}}

\* C5, amended: the list holds exactly the entries whose status is BAJO or
\* whose quantity is 0, each once and with its quantity, unit and status.
C5_ListaDeCompras ==
    C5_Caso =>
        /\ C5_Listados = {DESPENSA_DB[i].nombre : i \in {j \in DOMAIN DESPENSA_DB :
                             \/ DESPENSA_DB[j].estado = "BAJO"
                             \/ DESPENSA_DB[j].stock = 0}}
        /\ Len(C5_Lista) = Cardinality(C5_Listados)
        /\ \A i \in DOMAIN C5_Lista :
              Entrada(DESPENSA_DB, C5_Lista[i].nombre)
                = Some([nombre |-> C5_Lista[i].nombre,
                        stock |-> C5_Lista[i].stock_actual,
                        unidad |-> C5_Lista[i].unidad,
                        estado |-> C5_Lista[i].estado])

C5_Testigo ==
    /\ C5_Caso
    /\ \E i \in DOMAIN C5_Lista : C5_Lista[i].estado = "ALTO"
    /\ \E i \in DOMAIN C5_Lista : C5_Lista[i].estado = "BAJO"
    /\ \E i \in DOMAIN DESPENSA_DB :
          DESPENSA_DB[i].estado = "MEDIO" /\ DESPENSA_DB[i].nombre \notin C5_Listados

\* the four actions of the schema
Acciones == {"UPDATE", "CREATE", "QUERY", "SHOPPING_LIST"}

\* what the language model returned is the text of one JSON object that has the
\* structure of an ExtractedIntent
Conforme(respuesta) ==
    /\ ~respuesta.raises
    /\ EsJson(Limpiar(respuesta.content))
    /\ LET v == Limpiar(respuesta.content)[1].v
       IN  /\ v.clase = "dict"
           /\ DOMAIN v.d = {"accion", "productos", "intencion"}
           /\ ~IsNone(v.d.accion) /\ Val(v.d.accion) \in Acciones
           /\ ~IsNone(v.d.productos)
           /\ \A i \in DOMAIN Val(v.d.productos) :
                 /\ "nombre" \in DOMAIN Val(v.d.productos)[i]
                 /\ ~IsNone(Val(v.d.productos)[i].nombre)
           /\ ~IsNone(v.d.intencion)

\* C6: whenever the language model's output does not conform to the schema,
\* the extraction returns the default intent: action QUERY and no items.
C6_FailSoft ==
    (ultimo.op = "extraer" /\ ~Conforme(ultimo.respuesta)) =>
        /\ DictGet(ultimo.res, "accion", None) = Some("QUERY")
        /\ DictGet(ultimo.res, "productos", None) = Some(<<>>)
        /\ DictGet(ultimo.res, "intencion", None)
             \in {Some("error al procesar"),
                  Some("no se pudo extraer informacion estructurada")}

\* get(name) has returned for a name without entry
C7_Caso ==
    /\ ultimo.op = "consultar"
    /\ ~DbHas(ultimo.pre, Clave(ultimo.item_name))

\* C7: get(name) for a name without entry returns found = false, leaves the
\* ledger unchanged, and its message differs from the message of every found
\* entry, also of one whose quantity is 0.
C7_NoRegistrado ==
    C7_Caso =>
        /\ ultimo.res.encontrado = FALSE
        /\ DESPENSA_DB = ultimo.pre
        /\ \A n \in NombresConsulta :
              LET r == consultar_despensa(DESPENSA_DB, n)
                  vacio == consultar_despensa(
                               DbSet(DESPENSA_DB, Clave(n), 0, "unidad", "BAJO"), n)
              IN  /\ r.encontrado => r.mensaje # ultimo.res.mensaje
                  /\ vacio.encontrado /\ vacio.mensaje # ultimo.res.mensaje

C7_Testigo ==
    /\ C7_Caso
    /\ ultimo.item_name = "milk"
    /\ \E i \in DOMAIN DESPENSA_DB : DESPENSA_DB[i].stock = 0

\* C8 as stated: an upsert with an explicit status that is not one of BAJO,
\* MEDIO, ALTO fails and leaves the ledger as it was; every other upsert
\* succeeds.
C8_Original ==
    ultimo.op = "actualizar" =>
        IF ~IsNone(ultimo.estado) /\ Val(ultimo.estado) \notin {"BAJO", "MEDIO", "ALTO"}
          THEN ~ultimo.res.exito /\ DESPENSA_DB = ultimo.pre
          ELSE ultimo.res.exito

\* C8, amended: an upsert with an explicit status that, uppercased and trimmed,
\* is not one of BAJO, MEDIO, ALTO fails with the invalid-status outcome and
\* leaves the ledger as it was; every other upsert succeeds.
C8_EstadoNoValido ==
    ultimo.op = "actualizar" =>
        IF /\ ~IsNone(ultimo.estado)
           /\ Strip(Upper(Val(ultimo.estado))) \notin {"BAJO", "MEDIO", "ALTO"}
          THEN /\ ~ultimo.res.exito
               /\ "error" \in DOMAIN ultimo.res
               /\ DESPENSA_DB = ultimo.pre
          ELSE ultimo.res.exito

C8_Testigo ==
    /\ ultimo.op = "actualizar"
    /\ ultimo.estado = Some("lleno")
    /\ ~ultimo.res.exito
    /\ ~DbHas(DESPENSA_DB, Clave(ultimo.item_name))

\* an upsert with a quantity and one of the three status values has returned
C9_Caso ==
    /\ ultimo.op = "actualizar"
    /\ ~IsNone(ultimo.estado)
    /\ Val(ultimo.estado) \in {"BAJO", "MEDIO", "ALTO"}
    /\ ~IsNone(ultimo.cantidad)

\* C9: an upsert with a valid explicit status s and a quantity q stores the
\* status s and the quantity q, whatever status the derivation law gives for q.
C9_EstadoExplicito ==
    C9_Caso =>
        /\ ultimo.res.exito
        /\ ~IsNone(Entrada(DESPENSA_DB, ultimo.item_name))
        /\ Val(Entrada(DESPENSA_DB, ultimo.item_name)).estado = Val(ultimo.estado)
        /\ Val(Entrada(DESPENSA_DB, ultimo.item_name)).stock = Val(ultimo.cantidad)

C9_Testigo ==
    /\ C9_Caso
    /\ LeyEstado(Val(ultimo.cantidad)) # Val(ultimo.estado)
    /\ Val(ultimo.cantidad) = 0

\* an upsert has succeeded
C10_Caso == ultimo.op = "actualizar" /\ ultimo.res.exito

\* C10: a successful update adds one entry when the key of the name was not in
\* the ledger and overwrites the entry of that key in place otherwise; the
\* other entries are untouched; the outcome is marked CREATE exactly when the
\* key was not in the ledger before the update.
C10_CreaOActualiza ==
    C10_Caso =>
        LET k == Clave(ultimo.item_name)
        IN  /\ (ultimo.res.accion = "CREATE") <=> ~DbHas(ultimo.pre, k)
            /\ (ultimo.res.accion = "UPDATE") <=> DbHas(ultimo.pre, k)
            /\ DbHas(DESPENSA_DB, k)
            /\ Otras(DESPENSA_DB, k) = Otras(ultimo.pre, k)
            /\ Len(DESPENSA_DB) = Len(ultimo.pre) + (IF DbHas(ultimo.pre, k) THEN 0 ELSE 1)
            /\ Val(DbGet(DESPENSA_DB, k)).stock = ultimo.res.stock
            /\ Val(DbGet(DESPENSA_DB, k)).unidad = ultimo.res.unidad
            /\ Val(DbGet(DESPENSA_DB, k)).estado = ultimo.res.estado

C10_Testigo ==
    /\ C10_Caso
    /\ ultimo.res.accion = "UPDATE"
    /\ ultimo.item_name = "milk"
    /\ DbGet(DESPENSA_DB, "milk") # DbGet(ultimo.pre, "milk")

---------------------------------------------------------------------------
(* Media tools: SpecMedia *)

\* a call of a media tool has returned
C15_Llamada == ultimo.op \in {"transcribir", "imagen"}

\* the allow-list and the size ceiling of the tool that was called
C15_Permitidas ==
    IF ultimo.op = "transcribir" THEN valid_extensions_audio
    ELSE valid_extensions_imagen
C15_Techo == IF ultimo.op = "transcribir" THEN MaxMBAudio ELSE MaxMBImagen

\* the reasons for which the file of the call must be rejected (a path that
\* names a directory is not a file of any format or size)
C15_Motivos ==
    LET f == ultimo.archivo
    IN  (IF ~f.existe THEN {"NOT_FOUND"} ELSE {})
        \cup (IF f.existe /\ f.es_archivo /\ Lower(f.ext) \notin C15_Permitidas
                THEN {"UNSUPPORTED_FORMAT"} ELSE {})
        \cup (IF f.existe /\ f.es_archivo /\ f.mb > C15_Techo
                THEN {"TOO_LARGE"} ELSE {})

\* the failure a result carries, None when the tool did not fail: the
\* exception raised, or the text returned when it starts with Error
C15_Fallo(res) ==
    IF ~IsNone(res.raises) THEN Some(Val(res.raises).motivo)
    ELSE IF Val(res.content).clase = "texto"
            /\ Val(res.content).tag \in {"Error: no existe",
                                         "Error: no es un archivo valido",
                                         "Error: formato no soportado",
                                         "Error: demasiado grande"}
      THEN Some(Val(res.content).tag)
    ELSE None

\* the reason a failure names
C15_Razon(fallo) ==
    CASE fallo \in {"no existe", "Error: no existe"} -> "NOT_FOUND"
      [] fallo \in {"formato no soportado", "Error: formato no soportado"}
                                                     -> "UNSUPPORTED_FORMAT"
      [] fallo \in {"demasiado grande", "Error: demasiado grande"} -> "TOO_LARGE"
      [] OTHER -> "OTRO"

\* C15: a call of transcribir_audio or procesar_imagen on a file that is
\* missing, has an extension outside the allow-list of the tool or is larger
\* than the ceiling of the tool fails without any call of the external speech
\* or vision capability, and the failure names one of the reasons that apply
\* to the file: not found, unsupported format or too large, each told apart
\* from the other two.
C15_RechazoPrevio ==
    (C15_Llamada /\ C15_Motivos # {}) =>
        /\ ultimo.res.externas = 0
        /\ ~IsNone(C15_Fallo(ultimo.res))
        /\ C15_Razon(Val(C15_Fallo(ultimo.res))) \in C15_Motivos

C15_Testigo ==
    /\ ultimo.op = "transcribir"
    /\ ultimo.archivo.existe
    /\ ultimo.archivo.ext = ".xyz"
    /\ ultimo.archivo.mb = 1
    /\ ~IsNone(ultimo.res.raises)
    /\ Val(ultimo.res.raises).motivo = "formato no soportado"
    /\ ultimo.res.externas = 0

---------------------------------------------------------------------------
(* The turn: SpecTurno and SpecTurnoJusto *)

\* C11: a turn in which the language model issues at most MaxLlamadas tool
\* calls and then answers without a tool call comes to its end, and at the
\* end exactly one reply has been sent, to the number of the turn.
C11_Termina ==
    <>[](/\ nodo = "fin"
         /\ Len(enviados) = 1
         /\ enviados[1].to = Numero)

C11_Testigo ==
    /\ nodo = "fin"
    /\ turno.llamadas = MaxLlamadas
    /\ ~turno.excepcion
    /\ Len(enviados) = 1
    /\ \E i \in DOMAIN mensajes : mensajes[i].rol = "tool"

\* the step is one of ToolNode that no exception leaves
C12_Paso == nodo = "tools" /\ ~turno'.excepcion

\* the statement of the specification: one step of DISPATCH_TOOL runs exactly
\* one tool call and appends its one result
C12_Original ==
    [][C12_Paso => /\ Len(mensajes') = Len(mensajes) + 1
                   /\ nodo' = "agent"]_vars

\* C12: one step of DISPATCH_TOOL runs every tool call of the last reasoning
\* output, one or several, appends one result for each call after the
\* messages there were, and returns to REASON.
C12_TodasLasLlamadas ==
    [][C12_Paso =>
        LET calls == Ultimo(mensajes).tool_calls
            n == Len(mensajes)
        IN  /\ calls # <<>>
            /\ Len(mensajes') = n + Len(calls)
            /\ SubSeq(mensajes', 1, n) = mensajes
            /\ \A i \in 1..Len(calls) : mensajes'[n + i].rol = "tool"
            /\ (\E i \in 1..Len(calls) : calls[i].name = "actualizar_despensa")
                  => DbHas(DESPENSA_DB', "milk")
            /\ nodo' = "agent"]_vars

C12_Testigo ==
    /\ nodo = "agent"
    /\ Len(mensajes) >= 3
    /\ Ultimo(mensajes).rol = "tool"
    /\ mensajes[Len(mensajes) - 1].rol = "tool"
    /\ Len(mensajes[Len(mensajes) - 2].tool_calls) = 2

\* the outputs of the tools of the turn, oldest first
C13_Salidas == SelectSeq(mensajes, LAMBDA m : m.rol = "tool")

\* C13: at RESPOND, when an output of a tool of the turn embeds an extract,
\* the newest such extract is applied to the ledger and run_agent returns the
\* reply together with the outcome; when no output of a tool embeds one,
\* run_agent returns only the reply and the ledger stays as it was.
C13_Escaneo ==
    [][nodo = "end" =>
        LET hallado == BuscarExtracto(C13_Salidas, Len(C13_Salidas))
            respuesta_final == Ultimo(mensajes).content
        IN  IF ~IsNone(hallado)
              THEN LET r == procesar_extracto_productos(DESPENSA_DB, Val(hallado))
                   IN  /\ DESPENSA_DB' = r.db
                       /\ Val(turno'.retorno).clase = "dict"
                       /\ Val(turno'.retorno).respuesta = respuesta_final
                       /\ Val(turno'.retorno).resultado_procesado = r.res
              ELSE /\ DESPENSA_DB' = DESPENSA_DB
                   /\ turno'.retorno =
                        Some([clase |-> "str", respuesta |-> respuesta_final])]_vars

---------------------------------------------------------------------------
(* The webhook: SpecWebhook *)

\* the message carries no identity of the counterparty
C16_SinIdentidad(m) == m.from \in {None, Some("")}

\* the message is of a type whose object is missing or is not an object
C17_Invalido(m) ==
    \/ m.type \in {"audio", "image"} /\ m.dato # "objeto"
    \/ m.type = "text" /\ m.dato = "nulo"

C17_Esperados ==
    LET vistos == SubSeq(evento.messages, 1, evento.i - 1)
        validos == SelectSeq(vistos,
                     LAMBDA m : ~C16_SinIdentidad(m) /\ ~C17_Invalido(m))
    IN  [j \in 1..Len(validos) |-> Val(validos[j].from)]

\* C17: at every point of the event the replies attempted are exactly one
\* for each message handled that carries an identity and is well formed, in
\* the order of the messages and each to the sender of its message: a text,
\* an audio, an image, a type that is not supported, a turn in which the
\* agent raises and a download that fails all give one attempt; only the
\* messages without identity or without a well formed object give none.
C17_UnaRespuesta ==
    [j \in 1..Len(enviados) |-> enviados[j].to] = C17_Esperados

C17_Testigo ==
    /\ evento.status = "200"
    /\ Len(enviados) = 2
    /\ evento.messages[1].type = "text"
    /\ evento.messages[2].type = "audio"
    /\ enviados[1].message = TextoPlano("Lo siento, hubo un error")
    /\ enviados[2].message = TextoPlano("Lo siento, no pude descargar")

---------------------------------------------------------------------------
(* Two concurrent upserts: SpecUpserts *)

\* the ledger after the call with arguments a runs alone on db
C18_Solo(db, a) ==
    actualizar_despensa(db, a.item_name, a.cantidad, a.unidad, a.estado).db

C18_Fin == \A t \in Hilos : hilos[t].pc = "fin"

\* C18: only the store of a call changes the ledger, and it changes the one
\* entry of its key into the whole entry that call built.  When both calls
\* have returned: with different keys each key holds what its call alone
\* would have written on the initial ledger; with the same key the entry is
\* whole the entry of one of the two calls, run alone or after the other;
\* every other key is as it was.
C18_UltimaEscritura ==
    [][/\ DESPENSA_DB' # DESPENSA_DB =>
            \E t \in Hilos :
               /\ hilos[t].pc = "escribir" /\ hilos'[t].pc = "resultado"
               /\ \A k \in DbKeys(DESPENSA_DB') :
                     DbGet(DESPENSA_DB', k) =
                        IF k = Clave(hilos[t].args.item_name)
                          THEN hilos'[t].escrito
                          ELSE DbGet(DESPENSA_DB, k)
       /\ C18_Fin' =>
            LET a1 == hilos[1].args
                a2 == hilos[2].args
                k1 == Clave(a1.item_name)
                k2 == Clave(a2.item_name)
                db0 == DESPENSA_DB_inicial
                fin == DESPENSA_DB'
            IN  /\ \A k \in (DbKeys(fin) \cup DbKeys(db0)) \ {k1, k2} :
                      DbGet(fin, k) = DbGet(db0, k)
                /\ k1 # k2 =>
                      /\ DbGet(fin, k1) = DbGet(C18_Solo(db0, a1), k1)
                      /\ DbGet(fin, k2) = DbGet(C18_Solo(db0, a2), k2)
                /\ k1 = k2 =>
                      DbGet(fin, k1) \in
                         {DbGet(C18_Solo(db0, a1), k1),
                          DbGet(C18_Solo(db0, a2), k1),
                          DbGet(C18_Solo(C18_Solo(db0, a2), a1), k1),
                          DbGet(C18_Solo(C18_Solo(db0, a1), a2), k1)}]_vars

\* both calls wrote the same key, the second store after a read that the
\* first store made stale
C18_Testigo ==
    /\ C18_Fin
    /\ Clave(hilos[1].args.item_name) = Clave(hilos[2].args.item_name)
    /\ ~IsNone(hilos[1].escrito)
    /\ ~IsNone(hilos[2].escrito)
    /\ hilos[1].escrito # hilos[2].escrito
    /\ IsNone(hilos[1].producto_existente)
    /\ IsNone(hilos[2].producto_existente)
    /\ DbGet(DESPENSA_DB, "milk") = hilos[1].escrito

---------------------------------------------------------------------------
(* Two concurrent turns of one number: SpecTurnos *)

\* C19: nothing excludes a turn while the other is between its lookup of
\* the history and its last append: in every state each turn that has not
\* ended can take its next step, wherever the other turn is.  (The state of
\* C19_Testigo shows the appends of the two turns interleaved.)
C19_SinExclusion ==
    \A t \in Hilos :
        hilos[t].pc # "fin" =>
           ENABLED (NextTurnos /\ hilos'[t].pc # hilos[t].pc)

\* both turns ended on the stored list and the stored history is neither
\* the appends of turn 1 followed by those of turn 2 nor the reverse
C19_Testigo ==
    /\ \A t \in Hilos : /\ hilos[t].pc = "fin"
                        /\ hilos[t].lista = "mapa"
                        /\ ~hilos[t].excepcion
    /\ LET historia == chat_histories[Numero]
           a1 == hilos[1].agregados
           a2 == hilos[2].agregados
           previo == SubSeq(historia, 1, Len(historia) - Len(a1) - Len(a2))
       IN  /\ Len(historia) >= Len(a1) + Len(a2)
           /\ historia # previo \o a1 \o a2
           /\ historia # previo \o a2 \o a1

---------------------------------------------------------------------------
(* The menu of the turn: SpecTurno *)

\* the tools of NORMALIZE
C21_Media == {"transcribir_audio", "procesar_imagen"}

\* C21: in a turn without media file neither transcribir_audio nor
\* procesar_imagen is bound to the language model, and no tool call of the
\* turn names one of them, so neither is executed.
C21_SoloConMedia ==
    IsNone(turno.media) =>
       /\ Menu(turno.media) \cap C21_Media = {}
       /\ \A i \in DOMAIN mensajes :
             \A j \in DOMAIN mensajes[i].tool_calls :
                mensajes[i].tool_calls[j].name \notin C21_Media

\* a turn of text in which the tools ran and that came to its end
C21_Testigo ==
    /\ IsNone(turno.media)
    /\ turno.user_input = TextoPlano("hola")
    /\ nodo = "fin"
    /\ turno.llamadas = MaxLlamadas
    /\ \E i \in DOMAIN mensajes : mensajes[i].rol = "tool"

\* the media of the turn is audio, is an image: by the extension of its path
C22_EsAudio ==
    /\ ~IsNone(turno.media)
    /\ Lower(Val(turno.media).ext) \in {".wav", ".mp3", ".m4a", ".ogg", ".flac", ".aac"}

C22_EsImagen ==
    /\ ~IsNone(turno.media)
    /\ Lower(Val(turno.media).ext) \in {".jpg", ".jpeg", ".png", ".gif", ".webp"}

\* the statement of the specification: at every REASON step the menu has
\* the query, the update and the processing of a structured extraction, and
\* transcribe exactly for audio, caption exactly for an image
C22_Original ==
    nodo = "agent" =>
       /\ {"consultar_despensa", "actualizar_despensa",
           "procesar_extracto_productos"} \subseteq Menu(turno.media)
       /\ "transcribir_audio" \in Menu(turno.media) <=> C22_EsAudio
       /\ "procesar_imagen" \in Menu(turno.media) <=> C22_EsImagen

\* C22: at every REASON step the tools bound to the language model are
\* consultar_despensa and actualizar_despensa, with transcribir_audio in
\* addition exactly when the extension of the media is one of the audio
\* extensions of agent_node and procesar_imagen exactly when it is one of
\* its image extensions; procesar_extracto_productos is never bound, and no
\* tool call of the turn names a tool outside the menu.
C22_Menu ==
    LET menu == {"consultar_despensa", "actualizar_despensa"}
                  \cup (IF C22_EsAudio THEN {"transcribir_audio"} ELSE {})
                  \cup (IF C22_EsImagen THEN {"procesar_imagen"} ELSE {})
    IN  /\ nodo = "agent" => Menu(turno.media) = menu
        /\ \A i \in DOMAIN mensajes :
              \A j \in DOMAIN mensajes[i].tool_calls :
                 mensajes[i].tool_calls[j].name \in menu

\* the second REASON step of a turn of an image, after procesar_imagen ran
C22_Testigo ==
    /\ nodo = "agent"
    /\ C22_EsImagen
    /\ Ultimo(mensajes).rol = "tool"
    /\ \E i \in DOMAIN mensajes :
          /\ mensajes[i].tool_calls # <<>>
          /\ mensajes[i].tool_calls[1].name = "procesar_imagen"

---------------------------------------------------------------------------
(* The loop without a final answer: SpecBucle *)

\* the statement of the specification: nothing caps the loop, the dispatch
\* that a REASON step asks for is always performed and leads back to REASON
C23_Original ==
    [][nodo = "tools" => nodo' = "agent"]_vars

\* C23: the code passes no cap of its own, and the turn in which every
\* REASON step returns a tool call never reaches RESPOND; but the graph
\* runs at most recursion_limit steps of its nodes, so the turn performs at
\* most recursion_limit \div 2 dispatches, after which the graph raises,
\* run_agent returns nothing and the server sends its apology.
C23_Tope ==
    /\ nodo # "end"
    /\ turno.pasos <= recursion_limit
    /\ turno.despachos <= recursion_limit \div 2
    /\ turno.excepcion => turno.pasos = recursion_limit
    /\ nodo = "fin" =>
          /\ turno.excepcion
          /\ IsNone(turno.retorno)
          /\ enviados = <<[to |-> Numero,
                           message |-> TextoPlano("Lo siento, hubo un error")]>>

C23_Testigo ==
    /\ nodo = "fin"
    /\ turno.despachos = 12
    /\ turno.pasos = 25
    /\ Len(enviados) = 1

---------------------------------------------------------------------------
(* Transcription of an ogg file: SpecMedia *)

\* a call of transcribir_audio on an ogg file that passed the checks
C24_Ogg ==
    /\ ultimo # Idle
    /\ ultimo.op = "transcribir"
    /\ IsNone(ValidarAudio(ultimo.archivo))
    /\ Lower(ultimo.archivo.ext) = ".ogg"

\* the direct call was rejected for its format and the file was converted
C24_Convertido ==
    /\ ultimo.ambiente.directo = "formato"
    /\ ultimo.ambiente.pydub
    /\ ultimo.ambiente.conversion

\* C24: on an ogg file Whisper is first called on the file itself; it is
\* called a second and last time exactly when the first call was rejected
\* for its format and the conversion to WAV succeeded, and then the result
\* is the one of that second call; a first call that succeeds gives the
\* result at once, and one that fails for another reason raises with no
\* second call.
C24_Reintento ==
    C24_Ogg =>
       /\ ultimo.res.externas \in {1, 2}
       /\ ultimo.res.externas = 2 <=> C24_Convertido
       /\ C24_Convertido =>
             ultimo.res = Transcribir(ultimo.ambiente, 1)
       /\ ultimo.ambiente.directo = "ok" =>
             ultimo.res = Return(ResultadoAudio(ultimo.ambiente), 1)
       /\ ultimo.ambiente.directo = "otro" =>
             /\ ~IsNone(ultimo.res.raises)
             /\ ultimo.res.externas = 1

C24_Testigo ==
    /\ C24_Ogg
    /\ C24_Convertido
    /\ ultimo.ambiente.whisper = "ok"
    /\ ultimo.res.externas = 2
    /\ IsNone(ultimo.res.raises)
    /\ Val(ultimo.res.content).clase = "json"

\* C25: when the direct call was rejected for its format and pydub is not
\* available or the conversion fails, transcribir_audio raises nothing,
\* returns the text [ERROR_SETUP] or [ERROR_CONVERSION] and calls Whisper
\* no more.
C25_SinConversion ==
    (C24_Ogg /\ ultimo.ambiente.directo = "formato" /\ ~C24_Convertido) =>
       /\ IsNone(ultimo.res.raises)
       /\ ultimo.res.content =
             Some(TextoPlano(IF ultimo.ambiente.pydub THEN "[ERROR_CONVERSION]"
                             ELSE "[ERROR_SETUP]"))
       /\ ultimo.res.externas = 1

C25_Testigo ==
    /\ C24_Ogg
    /\ ultimo.ambiente.directo = "formato"
    /\ ultimo.ambiente.pydub
    /\ ~ultimo.ambiente.conversion
    /\ ultimo.ambiente.whisper = "ok"
    /\ ultimo.res.content = Some(TextoPlano("[ERROR_CONVERSION]"))

---------------------------------------------------------------------------
(* The intents applied to the ledger: Spec *)

\* the action of the intent given to procesar_extracto_productos
C26_Accion == DictGet(ultimo.extracto, "accion", None)

\* C26: a call of procesar_extracto_productos whose action is QUERY or
\* SHOPPING_LIST, and a call of consultar_despensa, leave the ledger as it
\* was: the same keys in the same order, each with the same quantity, unit
\* and status.
C26_SinCambio ==
    /\ (ultimo.op = "procesar"
          /\ C26_Accion \in {Some("QUERY"), Some("SHOPPING_LIST")})
       => DESPENSA_DB = ultimo.pre
    /\ ultimo.op = "consultar" => DESPENSA_DB = ultimo.pre

C26_Testigo ==
    /\ ultimo.op = "procesar"
    /\ C26_Accion = Some("QUERY")
    /\ DictGet(ultimo.extracto, "productos", None)
          = Some(<< [nombre |-> Some("milk")] >>)
    /\ DbHas(DESPENSA_DB, "milk")
    /\ ultimo.res.resultados[1].encontrado

\* a call of procesar_extracto_productos with an UPDATE or CREATE intent
\* that has a list of items
C27_Caso ==
    /\ ultimo.op = "procesar"
    /\ C26_Accion \in {Some("UPDATE"), Some("CREATE")}
    /\ ~IsNone(DictGet(ultimo.extracto, "productos", None))

C27_Productos == Val(ultimo.extracto.productos)

C27_TieneNombre(producto) == ~IsNone(DictGet(producto, "nombre", None))

\* what the items that have a name give when each one is applied
C27_Esperado ==
    ActualizarProductos(ultimo.pre, SelectSeq(C27_Productos, C27_TieneNombre))

\* C27: every item of an UPDATE/CREATE intent that can be applied is
\* applied, whatever the other items are: the ledger holds the writes of
\* all the items that have a name, and the aggregate result holds the
\* outcome of each of them.
C27_Independiente ==
    C27_Caso =>
       /\ DESPENSA_DB = C27_Esperado.db
       /\ \A i \in DOMAIN C27_Esperado.resultados :
             /\ "resultados" \in DOMAIN ultimo.res
             /\ \E j \in DOMAIN ultimo.res.resultados :
                   ultimo.res.resultados[j] = C27_Esperado.resultados[i]

\* a call of procesar_extracto_productos with an UPDATE, CREATE or QUERY
\* intent of one item or more
C28_Caso ==
    /\ ultimo.op = "procesar"
    /\ C26_Accion \in {Some("UPDATE"), Some("CREATE"), Some("QUERY")}
    /\ ~IsNone(DictGet(ultimo.extracto, "productos", None))
    /\ Val(ultimo.extracto.productos) # <<>>

\* the outcome of a queried item tells whether the ledger has the canonical
\* name and, if so, carries the entry as it is
C28_Consulta(resultado, nombre) ==
    LET producto == DbGet(ultimo.pre, Strip(Lower(nombre)))
    IN  /\ resultado.encontrado <=> ~IsNone(producto)
        /\ resultado.encontrado =>
              /\ resultado.stock = Val(producto).stock
              /\ resultado.unidad = Val(producto).unidad
              /\ resultado.estado = Val(producto).estado

\* C28: for an UPDATE, CREATE or QUERY intent of n >= 1 items the result
\* carries the action of the intent, n outcomes, the i-th being the outcome
\* of the i-th item, and the count n; for QUERY each outcome is found
\* exactly when the canonical name is in the ledger and then carries the
\* entry.
C28_Agregado ==
    C28_Caso =>
       LET productos == Val(ultimo.extracto.productos)
       IN  /\ "resultados" \in DOMAIN ultimo.res
           /\ ultimo.res.accion_original = C26_Accion
           /\ Len(ultimo.res.resultados) = Len(productos)
           /\ ultimo.res.total_operaciones = Len(productos)
           /\ \A i \in DOMAIN productos :
                 /\ DictGet(productos[i], "nombre", None)
                       = Some(ultimo.res.resultados[i].producto)
                 /\ C26_Accion = Some("QUERY") =>
                       C28_Consulta(ultimo.res.resultados[i],
                                    ultimo.res.resultados[i].producto)

\* the same for the intents whose items all have a name
C28_ConNombres ==
    (C28_Caso /\ \A i \in DOMAIN C27_Productos : C27_TieneNombre(C27_Productos[i]))
       => C28_Agregado

\* a call of procesar_extracto_productos with a QUERY intent without items
C29_Caso ==
    /\ ultimo.op = "procesar"
    /\ C26_Accion = Some("QUERY")
    /\ DictGet(ultimo.extracto, "productos", Some(<<>>)) = Some(<<>>)

C29_Lista == ultimo.res.resultados[1].productos

\* C29: no operation moves an entry of the ledger: the entries that were
\* there keep their places and a new entry goes to the end, so the order of
\* the ledger is the order of first insertion; and a QUERY intent without
\* items lists every entry once, in that order, with its quantity, unit and
\* status.
C29_ListadoCompleto ==
    /\ ultimo # Idle =>
          /\ Len(DESPENSA_DB) >= Len(ultimo.pre)
          /\ \A i \in DOMAIN ultimo.pre :
                DESPENSA_DB[i].nombre = ultimo.pre[i].nombre
    /\ C29_Caso =>
          /\ Len(ultimo.res.resultados) = 1
          /\ Len(C29_Lista) = Len(DESPENSA_DB)
          /\ \A i \in DOMAIN DESPENSA_DB :
                C29_Lista[i] = [nombre |-> DESPENSA_DB[i].nombre,
                                stock |-> DESPENSA_DB[i].stock,
                                unidad |-> DESPENSA_DB[i].unidad,
                                estado |-> DESPENSA_DB[i].estado]
          /\ \A i, j \in DOMAIN C29_Lista :
                C29_Lista[i].nombre = C29_Lista[j].nombre => i = j

C29_Testigo ==
    /\ C29_Caso
    /\ Len(C29_Lista) = Len(DESPENSA_DB_inicial) + 1
    /\ C29_Lista[1].nombre = "leche"
    /\ C29_Lista[1].stock = MaxCantidad
    /\ C29_Lista[Len(C29_Lista)].nombre = "milk"

\* the names that differ from a name only in case or in the whitespace
\* around it
C30_Variantes(item_name) ==
    {n \in NombresConsulta : Strip(Lower(n)) = Strip(Lower(item_name))}

\* C30: every key of the ledger is its own lowercased and trimmed form and
\* no two entries have the same canonical name; after an update that
\* succeeded, a query by any name that differs from the updated one only in
\* case or surrounding whitespace finds the entry just written.
C30_ClaveCanonica ==
    /\ \A i \in DOMAIN DESPENSA_DB :
          Strip(Lower(DESPENSA_DB[i].nombre)) = DESPENSA_DB[i].nombre
    /\ \A i, j \in DOMAIN DESPENSA_DB :
          Strip(Lower(DESPENSA_DB[i].nombre)) = Strip(Lower(DESPENSA_DB[j].nombre))
             => i = j
    /\ (ultimo.op = "actualizar" /\ ultimo.res.exito) =>
          \A n \in C30_Variantes(ultimo.item_name) :
             LET consulta == consultar_despensa(DESPENSA_DB, n)
             IN  /\ consulta.encontrado
                 /\ consulta.stock = ultimo.res.stock
                 /\ consulta.unidad = ultimo.res.unidad
                 /\ consulta.estado = ultimo.res.estado

C30_Testigo ==
    /\ ultimo.op = "actualizar"
    /\ ultimo.res.exito
    /\ ultimo.item_name = " Leche "
    /\ ultimo.cantidad = Some(MaxCantidad)
    /\ "leche" \in C30_Variantes(ultimo.item_name)
    /\ consultar_despensa(DESPENSA_DB, "leche").stock = MaxCantidad
    /\ DbHas(DESPENSA_DB, "milk")
    /\ Len(DESPENSA_DB) = Len(DESPENSA_DB_inicial) + 1

---------------------------------------------------------------------------
(* The entries of the ledger: SpecConSigno and Spec *)

\* C31: in every reachable state the quantity of every entry of the ledger
\* is a non-negative integer.
C31_NoNegativo ==
    \A i \in DOMAIN DESPENSA_DB : DESPENSA_DB[i].stock \in Nat

\* C32: in every reachable state the status of every entry of the ledger is
\* BAJO, MEDIO or ALTO, whatever status was passed to actualizar_despensa.
C32_EstadoValido ==
    \A i \in DOMAIN DESPENSA_DB :
        DESPENSA_DB[i].estado \in {"BAJO", "MEDIO", "ALTO"}

C32_Testigo ==
    /\ ultimo.op = "actualizar"
    /\ ultimo.estado = Some("lleno")
    /\ ~ultimo.res.exito
    /\ DbHas(DESPENSA_DB, "milk")
    /\ Val(Entrada(DESPENSA_DB, "milk")).estado = "BAJO"
    /\ Val(Entrada(DESPENSA_DB, "milk")).stock = MaxCantidad

\* C33: no step removes a key from the ledger: a key present before a tool
\* call or the application of an intent, whatever its action, is present
\* after it.
C33_NuncaBorra ==
    [][DbKeys(DESPENSA_DB) \subseteq DbKeys(DESPENSA_DB')]_vars

C33_Testigo ==
    /\ ultimo.op = "procesar"
    /\ C26_Accion = Some("DELETE")
    /\ DbHas(DESPENSA_DB, "milk")
    /\ DbKeys(DESPENSA_DB) = DbKeys(DESPENSA_DB_inicial) \cup {"milk"}

---------------------------------------------------------------------------
(* The stored history of a number: SpecTurno *)

\* C34: when a turn has been processed without exception, the stored
\* history of the number is the history it had before the turn followed by
\* two messages, the one of the user and the reply, whether the history was
\* empty or not; no message of the turn is stored twice.
C34_DosMensajes ==
    (nodo = "fin" /\ ~turno.excepcion) =>
       chat_histories[Numero] =
          turno.previo
          \o <<EntradaDelHistorial(turno.user_input, turno.media),
               AIMessage(Val(turno.retorno).respuesta, <<>>)>>

\* C35: when the turn has failed with an exception inside run_agent and the
\* apology has been sent, the stored history of the number is the one it
\* had before the turn.
C35_SinCambio ==
    (nodo = "fin" /\ turno.excepcion) =>
       /\ enviados = <<[to |-> Numero,
                        message |-> TextoPlano("Lo siento, hubo un error")]>>
       /\ chat_histories[Numero] = turno.previo

\* the keys written by the calls of actualizar_despensa that the language
\* model asked for in the messages of the turn
C36_Escritas ==
    {Clave(mensajes[i].tool_calls[j].item_name) :
        <<i, j>> \in {<<i, j>> \in (DOMAIN mensajes) \X (1..MaxPorRespuesta) :
                        /\ j \in DOMAIN mensajes[i].tool_calls
                        /\ mensajes[i].tool_calls[j].name = "actualizar_despensa"}}

\* C36: the application of the extract at the end of run_agent leaves
\* every entry written by a tool call of the turn as that call wrote it.
C36_NoSobrescribe ==
    [][nodo = "end" =>
          \A k \in C36_Escritas :
             DbGet(DESPENSA_DB', k) = DbGet(DESPENSA_DB, k)]_vars

---------------------------------------------------------------------------
(* The lists of extensions: SpecMedia *)

\* C37: the lists of extensions agree. A file for which agent_node offers
\* transcribir_audio is not rejected by transcribir_audio for its format;
\* and the file download_media writes for an audio message makes agent_node
\* offer transcribir_audio, the one for an image message procesar_imagen.
C37_Acuerdo ==
    /\ (ultimo.op = "transcribir"
          /\ "transcribir_audio" \in Menu(Some(ultimo.archivo))
          /\ ultimo.archivo.existe /\ ultimo.archivo.es_archivo)
       => ultimo.res.raises # Some([tipo |-> "ValueError",
                                    motivo |-> "formato no soportado"])
    /\ (ultimo.op = "descargar" /\ ~IsNone(ultimo.res))
       => (IF ultimo.type = "audio" THEN "transcribir_audio" ELSE "procesar_imagen")
             \in Menu(ultimo.res)

\* the first half of C37 alone
C37_Ofrecida ==
    (ultimo.op = "transcribir"
       /\ "transcribir_audio" \in Menu(Some(ultimo.archivo))
       /\ ultimo.archivo.existe /\ ultimo.archivo.es_archivo)
    => ultimo.res.raises # Some([tipo |-> "ValueError",
                                 motivo |-> "formato no soportado"])

\* the second half of C37 alone
C37_Descargada ==
    (ultimo.op = "descargar" /\ ~IsNone(ultimo.res))
    => (IF ultimo.type = "audio" THEN "transcribir_audio" ELSE "procesar_imagen")
          \in Menu(ultimo.res)

---------------------------------------------------------------------------
(* An update without quantity and without status: Spec *)

\* a call of actualizar_despensa with neither quantity nor status
C38_Caso ==
    /\ ultimo.op = "actualizar"
    /\ IsNone(ultimo.cantidad)
    /\ IsNone(ultimo.estado)

\* the quantity the entry had before the call, 0 for a new entry
C38_StockPrevio ==
    IF IsNone(Entrada(ultimo.pre, ultimo.item_name)) THEN 0
    ELSE Val(Entrada(ultimo.pre, ultimo.item_name)).stock

\* the quantity and the status of the entry keep their relation
C38_Deriva ==
    Val(Entrada(DESPENSA_DB, ultimo.item_name)).estado
       = LeyEstado(Val(Entrada(DESPENSA_DB, ultimo.item_name)).stock)

\* the statement of the specification: the quantity stays, the status is
\* MEDIO, and the status is the one derived from the quantity
C38_Original ==
    C38_Caso =>
       /\ Val(Entrada(DESPENSA_DB, ultimo.item_name)).stock = C38_StockPrevio
       /\ Val(Entrada(DESPENSA_DB, ultimo.item_name)).estado = "MEDIO"
       /\ C38_Deriva

\* C38: an update with neither quantity nor status succeeds, leaves the
\* quantity of an existing entry as it was, stores 0 for a new entry and
\* sets the status to MEDIO whatever the quantity; the status is then the
\* one derived from the quantity exactly when the quantity is 1 or 2.
C38_SinCantidad ==
    C38_Caso =>
       /\ ultimo.res.exito
       /\ Val(Entrada(DESPENSA_DB, ultimo.item_name)).stock = C38_StockPrevio
       /\ Val(Entrada(DESPENSA_DB, ultimo.item_name)).estado = "MEDIO"
       /\ C38_Deriva <=> C38_StockPrevio \in 1..2

C38_Testigo ==
    /\ C38_Caso
    /\ ultimo.item_name = " Leche "
    /\ Val(Entrada(ultimo.pre, " Leche ")).stock = MaxCantidad
    /\ Val(Entrada(ultimo.pre, " Leche ")).estado = "ALTO"
    /\ Val(Entrada(DESPENSA_DB, " Leche ")).stock = MaxCantidad
    /\ Val(Entrada(DESPENSA_DB, " Leche ")).estado = "MEDIO"

---------------------------------------------------------------------------
(* The histories of different numbers: SpecWebhook *)

\* the history the server holds for the number n, empty when it has none
C39_Previo(n) == IF n \in DOMAIN chat_histories THEN chat_histories[n] ELSE <<>>

\* the step leaves the history of b as it was: not created, not changed
C39_Intacto(b) ==
    /\ b \in DOMAIN chat_histories' <=> b \in DOMAIN chat_histories
    /\ b \in DOMAIN chat_histories => chat_histories'[b] = chat_histories[b]

\* C39: the step that processes a message of the number n leaves the
\* history of every other number as it was, neither created nor changed,
\* and the history of n after it is the one n had before (empty for a new
\* number) followed by at most the three messages of the turn, so nothing
\* of another history went into it; a message without number and the end
\* of the request change no history.
C39_Aislados ==
    [][IF EnCurso /\ ~TextoNulo(Mensaje) /\ ~SinNumero(Mensaje)
         THEN LET n == Val(Mensaje.from)
              IN  /\ \A b \in {"A", "B"} \ {n} : C39_Intacto(b)
                  /\ n \in DOMAIN chat_histories'
                  /\ Len(chat_histories'[n]) >= Len(C39_Previo(n))
                  /\ Len(chat_histories'[n]) <= Len(C39_Previo(n)) + 3
                  /\ SubSeq(chat_histories'[n], 1, Len(C39_Previo(n)))
                        = C39_Previo(n)
         ELSE chat_histories' = chat_histories]_vars

C39_Testigo ==
    /\ evento.status = "200"
    /\ DOMAIN chat_histories = {"A", "B"}
    /\ chat_histories["A"] = <<HumanMessage(TextoPlano("hola")),
                               AIMessage(TextoPlano("respuesta"), <<>>)>>
    /\ Len(chat_histories["B"]) = 4
    /\ Len(enviados) = 2

=============================================================================
